---- MODULE Spec2Model ----
(***************************************************************************)
(* A model of the work-coordination core of mineos (crate mineos-core):    *)
(* the nonce manager, the share validator, the job queue and the work      *)
(* distributor, each translated from its Rust source.                      *)
(*                                                                         *)
(* Scaling.  u64 values live in 0..MaxU64 and arithmetic on them is taken  *)
(* modulo MaxU64 + 1, so that the overflow behaviour of the code is kept.  *)
(* A build with overflow checks (debug) panics where a build without them  *)
(* (release) wraps; which build runs is fixed in the initial state         *)
(* (overflow_checks).  Time is counted in ticks, TicksPerSec ticks to the  *)
(* second, so that Duration::as_secs() is a real truncation.               *)
(***************************************************************************)
EXTENDS Integers, Sequences, FiniteSets, TLC

VARIABLES
    \* build profile: TRUE when integer overflow panics (debug), FALSE when it wraps
    overflow_checks,
    \* the clock (Instant::now()), in ticks
    now,
    \* ---- NonceManager (nonce_manager.rs) ----
    nm_config,        \* NonceManagerConfig
    job_offsets,      \* HashMap<String, u64>
    active_ranges,    \* HashMap<String, Vec<NonceRange>>
    recycled_ranges,  \* HashMap<String, VecDeque<NonceRange>>
    nm_stats,         \* NonceStats
    nm_ret,           \* the last call on the manager and what it returned
    hand,             \* per GPU worker: the range allocate_range handed it, if any, and
                      \* whether the manager has since taken it back or dropped it
    alloc_hist,       \* per job: the starts of the last two ranges allocate_range returned
    \* ---- ShareValidator (share_validator.rs) ----
    sv_config,        \* ShareValidatorConfig
    share_history,    \* VecDeque<ShareHistoryEntry>
    recent_hashes,    \* HashSet<Hash256>
    sv_active_jobs,   \* HashSet<String>
    nonce_validator,  \* Option<Arc<NonceManager>>: TRUE when the manager is wired in
    sv_stats,         \* ValidationStats
    sv_ret,           \* the last validate_result call and what it returned
    sv_repeat,        \* the call before it, with nothing between, had the same nonce,
                      \* hash and job id and returned Valid
    \* ---- JobQueue (job_queue.rs) ----
    jq_config,        \* JobQueueConfig
    high_priority,    \* the jobs in the high priority channel, oldest first
    normal,           \* the jobs in the normal channel, oldest first
    current_job,      \* Option<QueuedJob>
    backup_jobs,      \* VecDeque<QueuedJob>
    jq_stats,         \* QueueStats
    jq_stuck,         \* a caller hangs on the stats lock, which it holds itself
    jq_ret,           \* the last add_job or get_next_job call and what it returned
    jq_pending,       \* the clean job add_job accepted since the last get_next_job
    jq_clean_returned, \* the last clean job get_next_job returned
    \* ---- WorkDistributor (work_distributor.rs) ----
    wd_config,        \* WorkDistributorConfig
    wd_current_job,   \* RwLock<Option<Arc<MiningJob>>>: the job id
    next_work_id,     \* Atomic<u64>
    active_work,      \* DashMap<u64, WorkUnit>: the units
    gpu_stats,        \* DashMap<usize, GpuStats>
    work_queues,      \* DashMap<usize, Vec<WorkUnit>>
    global_nonce_offset, \* Atomic<u64>
    wk,               \* per GPU worker thread: where it is in get_work or submit_result
    uj,               \* the thread that calls update_job: where it is in it
    wd_calls,         \* how many update_job and submit_result calls were made, and
                      \* whether the last result submitted was of an active unit
    wd_fresh,         \* per GPU: update_job returned, was not called again, and
                      \* get_work was not called since
    \* ---- Hash256 (hash_types.rs) ----
    mt_hash,          \* the hash meets_target is called on
    mt_target,        \* the target it is given
    mt_ret,           \* whether meets_target was called, and what it returned
    \* ---- GpuScheduler (gpu_scheduler.rs) ----
    gs_config,        \* GpuSchedulerConfig
    gpu_loads,        \* HashMap<usize, GpuLoad>
    round_robin_counter, \* Atomic<usize>
    last_rebalance,   \* Instant
    gs_stats,         \* SchedulingStats
    gs_stuck,         \* select_gpu hangs on the stats lock, which it holds itself
    gs_ret,           \* the last select_gpu call and what it returned
    \* ---- StratumConnection (connection.rs) ----
    if_let_rescope,   \* the build drops the temporaries of an `if let` scrutinee
                      \* before its body (edition 2024) or after it (earlier)
    cn_state,         \* ConnectionState
    cn_stream,        \* Mutex<Option<Framed>>: the Option, and who holds the mutex
    pending_requests, \* HashMap<Value, Sender>: id -> the send_request call waiting
    request_ch,       \* the mpsc channel request_tx -> request_rx
    cn_read,          \* the read task: where it is
    cn_write,         \* the write task: where it is, and the request in its hand
    cn_disc,          \* the thread that calls disconnect: where it is in it
    cn_calls,         \* the send_request calls made: id, position, when accepted
    transport,        \* the requests written to the TCP stream, in order
    \* ---- StratumClient (client.rs) ----
    share_buffer_size, \* StratumConfig::share_buffer_size
    share_queue,      \* VecDeque<Share>: the shares buffered, by their serial number
    cl_pool,          \* the state of the active pool connection
    cl_shares,        \* how many shares were handed to submit_share
    cl_submit,        \* per calling thread: where it is in submit_share
    pool_shares,      \* the shares the pool has answered, in order
    pool_answers,     \* what the pool answered to each of them
    cl_stats,         \* state.stats: shares_accepted, shares_rejected
    cl_handler,       \* the share handler task: where it is
    \* ---- ConnectionPool (pool.rs) ----
    pl_pools,         \* config.pools
    failover_strategy, \* config.failover_strategy
    pl_latency,       \* metrics: the latency measured per pool
    active_pool,      \* Option<String>
    fo,               \* the failover call: where it is, the pools tried and attempted
    pl_connects,      \* how many connect_to_best_pool calls were made
    \* ---- MinerOrchestrator: start and stop (miner.rs) ----
    mo_status,        \* status: MinerStatus
    shutdown_tx,      \* Option<mpsc::Sender<()>>
    shutdown_rx,      \* the receiver of the shutdown channel
    stratum_client,   \* Option<Arc<StratumClient>>, started or stopped
    worker_tasks,     \* the task of each GPU worker: where it is
    mo_stop,          \* the stop() call: where it is
    mo_joined,        \* the worker tasks stop() has awaited
    \* ---- the request ids of one stratum session (protocol.rs, client.rs) ----
    COUNTER,          \* mod rand: static COUNTER: AtomicU32
    session_requests, \* the requests sent on the session: method and id
    pending_ids,      \* pending_requests: the ids waited for, with their method
    overwritten,      \* an entry of pending_requests was replaced while waited for
    cl_start,         \* StratumClient::start(): where it is
    \* ---- the lines the read task receives (connection.rs) ----
    notification_ch,  \* the mpsc channel notification_tx -> notification_rx
    cn_line,          \* the last line the read task received, and what it was taken as
    \* ---- threads that take several RwLocks ----
    rw_locks,         \* of each RwLock: the thread holding the write guard, those holding read guards
    sv_call,          \* the thread in validate_result: where it is, and its arguments
    sv_clear,         \* the thread in clear_history: where it is
    gs_select,        \* the thread in select_gpu: where it is
    gs_update         \* the thread in update_gpu_load: where it is, and what it reported

nm_vars == <<nm_config, job_offsets, active_ranges, recycled_ranges, nm_stats,
             nm_ret, hand, alloc_hist>>

sv_vars == <<sv_config, share_history, recent_hashes, sv_active_jobs, nonce_validator,
             sv_stats, sv_ret, sv_repeat>>

jq_vars == <<jq_config, high_priority, normal, current_job, backup_jobs, jq_stats,
             jq_stuck, jq_ret, jq_pending, jq_clean_returned>>

wd_vars == <<wd_config, wd_current_job, next_work_id, active_work, gpu_stats,
             work_queues, global_nonce_offset, wk, uj, wd_calls, wd_fresh>>

ht_vars == <<mt_hash, mt_target, mt_ret>>

\* the components beside the four of mineos-core above
gs_vars == <<gs_config, gpu_loads, round_robin_counter, last_rebalance, gs_stats,
             gs_stuck, gs_ret>>

cn_vars == <<if_let_rescope, cn_state, cn_stream, pending_requests, request_ch,
             cn_read, cn_write, cn_disc, cn_calls, transport>>

\* the mineos-stratum crate
cl_vars == <<share_buffer_size, share_queue, cl_pool, cl_shares, cl_submit,
             pool_shares, pool_answers, cl_stats, cl_handler>>

pl_vars == <<pl_pools, failover_strategy, pl_latency, active_pool, fo, pl_connects>>

st_vars == <<cn_vars, cl_vars, pl_vars>>

mo_vars == <<mo_status, shutdown_tx, shutdown_rx, stratum_client, worker_tasks, mo_stop,
             mo_joined>>

rq_vars == <<COUNTER, session_requests, pending_ids, overwritten, cl_start>>

ln_vars == <<notification_ch, cn_line>>

lk_vars == <<rw_locks, sv_call, sv_clear>>

gl_vars == <<gs_select, gs_update>>

lib_vars == <<ht_vars, gs_vars, st_vars, mo_vars, rq_vars, ln_vars, lk_vars, gl_vars>>

vars == <<overflow_checks, now, nm_vars, sv_vars, jq_vars, wd_vars, lib_vars>>

(***************************************************************************)
(* Bounds of the model                                                     *)
(***************************************************************************)
\* u64::MAX, scaled
MaxU64 == 15
\* allocate_range is called while fewer than this many fresh ranges were cut
MaxAllocs == 3
\* complete_range runs while fewer than this many ranges were recycled
MaxCompletes == 2
\* the clock stops here
MaxTime == 3
\* the clock of the job queue stops here
MaxQueueTime == 6
\* add_job is called while fewer than this many jobs were received
MaxJobs == 4
\* work units are generated while fewer than this many were
MaxUnits == 5
\* update_job is called at most this many times
MaxUpdates == 2
\* submit_result is called at most this many times
MaxSubmits == 2
\* validate_result is called while fewer than this many shares were validated
MaxValidations == 2
\* ticks of the clock to the second
TicksPerSec == 2

U64Mod == MaxU64 + 1

JobIds == {"job1", "job2"}
GpuIds == {0, 1}

None == "None"

\* Option::None as a requested size (the default size is used)
NoSize == 0 - 1

\* the sizes callers ask for
RequestedSizes == {NoSize, 0, MaxU64}

\* the range field of a return value that carries no range
NoRange == [start |-> 0, end |-> 0, gpu_index |-> 0, job_id |-> None]

\* a return value of a call on the nonce manager; kind is "some", "none" or "panic"
NmRet(op, job_id, kind, range) ==
    [op |-> op, job_id |-> job_id, kind |-> kind, range |-> range]

(***************************************************************************)
(* Maps (HashMap): functions whose domain is the set of keys present       *)
(***************************************************************************)
EmptyMap == [k \in {} |-> 0]

MapPut(m, k, v) == [x \in (DOMAIN m) \cup {k} |-> IF x = k THEN v ELSE m[x]]

MapRemove(m, k) == [x \in (DOMAIN m) \ {k} |-> m[x]]

SetMin(S) == CHOOSE x \in S : \A y \in S : x <= y

SetMax(S) == CHOOSE x \in S : \A y \in S : y <= x

RemoveAt(q, i) == SubSeq(q, 1, i - 1) \o SubSeq(q, i + 1, Len(q))

RECURSIVE Retain(_, _)
\* Vec::retain(|r| *r != range)
Retain(q, range) ==
    IF q = <<>> THEN <<>>
    ELSE IF Head(q) = range THEN Retain(Tail(q), range)
         ELSE <<Head(q)>> \o Retain(Tail(q), range)

(***************************************************************************)
(* NonceRange                                                              *)
(***************************************************************************)
NonceRangeNew(start, size, gpu_index, job_id) ==
    [start |-> start, end |-> (start + size) % U64Mod,
     gpu_index |-> gpu_index, job_id |-> job_id]

RangeSize(r) == (r.end - r.start) % U64Mod

RangeContains(r, nonce) == nonce >= r.start /\ nonce < r.end

\* Option<(left, right)>: the empty sequence for None, or the pair
RangeSplit(r, at) ==
    IF at <= r.start \/ at >= r.end THEN <<>>
    ELSE <<[r EXCEPT !.end = at], [r EXCEPT !.start = at]>>

(***************************************************************************)
(* NonceManager                                                            *)
(***************************************************************************)
\* impl Default for NonceManagerConfig, scaled: max_nonce is u64::MAX
NonceManagerConfigDefault ==
    [initial_nonce |-> 0, max_nonce |-> MaxU64, default_range_size |-> 4,
     enable_recycling |-> TRUE, max_ranges_per_job |-> 2]

NonceStatsDefault ==
    [total_ranges_allocated |-> 0, total_nonces_allocated |-> 0,
     ranges_recycled |-> 0, nonces_recycled |-> 0,
     active_jobs |-> 0, active_ranges |-> 0]

\* active.values().map(|v| v.len()).sum()
ActiveCount(active) ==
    LET RECURSIVE Sum(_)
        Sum(S) == IF S = {} THEN 0
                  ELSE LET k == CHOOSE x \in S : TRUE
                       IN Len(active[k]) + Sum(S \ {k})
    IN Sum(DOMAIN active)

\* get_recycled_range: [kind, range, recycled], kind one of "none", "some", "panic"
GetRecycledRange(recycled, job_id, gpu_index, requested_size) ==
    IF job_id \notin DOMAIN recycled
    THEN [kind |-> "none", range |-> NoRange, recycled |-> recycled]
    ELSE
    LET q == recycled[job_id]
        fit == {i \in 1..Len(q) : RangeSize(q[i]) >= requested_size}
    IN  IF fit = {} THEN [kind |-> "none", range |-> NoRange, recycled |-> recycled]
        ELSE
        LET i == SetMin(fit)
            range == [q[i] EXCEPT !.gpu_index = gpu_index]
            rest == RemoveAt(q, i)
            twice == requested_size * 2
            split_point == (range.start + requested_size) % U64Mod
            parts == RangeSplit(range, split_point)
        IN  IF twice > MaxU64 /\ overflow_checks
            THEN \* requested_size * 2 overflows after the range left the queue
                 [kind |-> "panic", range |-> NoRange,
                  recycled |-> MapPut(recycled, job_id, rest)]
            ELSE IF RangeSize(range) > twice % U64Mod /\ parts # <<>>
            THEN [kind |-> "some", range |-> parts[1],
                  recycled |-> MapPut(recycled, job_id, Append(rest, parts[2]))]
            ELSE [kind |-> "some", range |-> range,
                  recycled |-> MapPut(recycled, job_id, rest)]

\* is_nonce_allocated
IsNonceAllocated(job_id, nonce) ==
    /\ job_id \in DOMAIN active_ranges
    /\ \E i \in 1..Len(active_ranges[job_id]) :
          RangeContains(active_ranges[job_id][i], nonce)

\* a worker's hand: empty, or a range that is still the worker's (stale = FALSE) or
\* that the manager has released or dropped behind its back (stale = TRUE)
EmptyHand == [has |-> FALSE, range |-> NoRange, stale |-> FALSE]

\* the bookkeeping of what workers hold, after allocate_range returned `range`
Handed(job_id, gpu_index, range) ==
    /\ hand' = [hand EXCEPT ![gpu_index] = [has |-> TRUE, range |-> range, stale |-> FALSE]]
    /\ alloc_hist' = [alloc_hist EXCEPT ![job_id] = <<alloc_hist[job_id][2], range.start>>]

NotHanded == UNCHANGED <<hand, alloc_hist>>

\* allocate_range, the part after the recycled queue gave nothing
AllocateFresh(job_id, gpu_index, size, recycled1) ==
    LET offset == IF job_id \in DOMAIN job_offsets THEN job_offsets[job_id]
                  ELSE nm_config.initial_nonce
        offsets1 == MapPut(job_offsets, job_id, offset)
        sum == offset + size
        range == NonceRangeNew(offset, size, gpu_index, job_id)
        offsets2 == MapPut(job_offsets, job_id, sum % U64Mod)
        job_ranges == IF job_id \in DOMAIN active_ranges THEN active_ranges[job_id]
                      ELSE <<>>
        active1 == MapPut(active_ranges, job_id, job_ranges)
        active2 == MapPut(active_ranges, job_id, Append(job_ranges, range))
        nonces == nm_stats.total_nonces_allocated + size
    IN
    /\ recycled_ranges' = recycled1
    /\ IF sum > MaxU64 /\ overflow_checks
       THEN \* `*offset + size` panics; the entry or_insert made stays
            /\ job_offsets' = offsets1
            /\ UNCHANGED <<active_ranges, nm_stats>>
            /\ nm_ret' = NmRet("allocate_range", job_id, "panic", NoRange)
            /\ NotHanded
       ELSE IF sum % U64Mod > nm_config.max_nonce
       THEN /\ job_offsets' = offsets1
            /\ UNCHANGED <<active_ranges, nm_stats>>
            /\ nm_ret' = NmRet("allocate_range", job_id, "none", NoRange)
            /\ NotHanded
       ELSE IF Len(job_ranges) >= nm_config.max_ranges_per_job
       THEN \* the offset has moved although no range is returned
            /\ job_offsets' = offsets2
            /\ active_ranges' = active1
            /\ UNCHANGED nm_stats
            /\ nm_ret' = NmRet("allocate_range", job_id, "none", NoRange)
            /\ NotHanded
       ELSE IF nonces > MaxU64 /\ overflow_checks
       THEN \* `total_nonces_allocated += size` panics after the range was pushed
            /\ job_offsets' = offsets2
            /\ active_ranges' = active2
            /\ nm_stats' = [nm_stats EXCEPT
                   !.total_ranges_allocated = @ + 1]
            /\ nm_ret' = NmRet("allocate_range", job_id, "panic", NoRange)
            /\ NotHanded
       ELSE /\ job_offsets' = offsets2
            /\ active_ranges' = active2
            /\ nm_stats' = [nm_stats EXCEPT
                   !.total_ranges_allocated = @ + 1,
                   !.total_nonces_allocated = nonces % U64Mod,
                   !.active_jobs = Cardinality(DOMAIN offsets2),
                   !.active_ranges = ActiveCount(active2)]
            /\ nm_ret' = NmRet("allocate_range", job_id, "some", range)
            /\ Handed(job_id, gpu_index, range)

\* allocate_range(job_id, gpu_index, requested_size)
AllocateRange(job_id, gpu_index, requested_size) ==
    LET size == IF requested_size = NoSize THEN nm_config.default_range_size
                ELSE requested_size
        rec == IF nm_config.enable_recycling
               THEN GetRecycledRange(recycled_ranges, job_id, gpu_index, size)
               ELSE [kind |-> "none", range |-> NoRange, recycled |-> recycled_ranges]
    IN
    /\ ~hand[gpu_index].has
    /\ nm_stats.total_ranges_allocated < MaxAllocs
    /\ IF rec.kind = "some"
       THEN /\ recycled_ranges' = rec.recycled
            /\ UNCHANGED <<job_offsets, active_ranges, nm_stats>>
            /\ nm_ret' = NmRet("allocate_range", job_id, "some", rec.range)
            /\ Handed(job_id, gpu_index, rec.range)
       ELSE IF rec.kind = "panic"
       THEN /\ recycled_ranges' = rec.recycled
            /\ UNCHANGED <<job_offsets, active_ranges, nm_stats>>
            /\ nm_ret' = NmRet("allocate_range", job_id, "panic", NoRange)
            /\ NotHanded
       ELSE AllocateFresh(job_id, gpu_index, size, rec.recycled)
    /\ UNCHANGED nm_config

\* complete_range applied to the maps: [active, recycled, stats]
CompleteRangeOn(s, job_id, range) ==
    LET active1 == IF job_id \in DOMAIN s.active
                   THEN MapPut(s.active, job_id, Retain(s.active[job_id], range))
                   ELSE s.active
        q == IF job_id \in DOMAIN s.recycled THEN s.recycled[job_id] ELSE <<>>
        nonces == s.stats.nonces_recycled + RangeSize(range)
    IN  IF s.panicked THEN s
        ELSE IF ~nm_config.enable_recycling
        THEN [s EXCEPT !.active = active1]
        ELSE IF nonces > MaxU64 /\ overflow_checks
        THEN \* `nonces_recycled += range_size` panics after the push
             [active |-> active1,
              recycled |-> MapPut(s.recycled, job_id, Append(q, range)),
              stats |-> [s.stats EXCEPT !.ranges_recycled = @ + 1],
              panicked |-> TRUE]
        ELSE [active |-> active1,
              recycled |-> MapPut(s.recycled, job_id, Append(q, range)),
              stats |-> [s.stats EXCEPT !.ranges_recycled = @ + 1,
                                        !.nonces_recycled = nonces % U64Mod],
              panicked |-> FALSE]

NmMaps == [active |-> active_ranges, recycled |-> recycled_ranges,
           stats |-> nm_stats, panicked |-> FALSE]

\* the bound on complete_range calls
MayComplete(count) == nm_stats.ranges_recycled + count <= MaxCompletes

\* complete_range(job_id, range), called by the worker of GPU g for the range it has
CompleteRange(g) ==
    LET range == hand[g].range
        s == CompleteRangeOn(NmMaps, range.job_id, range)
    IN  /\ hand[g].has
        /\ MayComplete(1)
        /\ active_ranges' = s.active
        /\ recycled_ranges' = s.recycled
        /\ nm_stats' = s.stats
        /\ nm_ret' = NmRet("complete_range", range.job_id,
                            IF s.panicked THEN "panic" ELSE "none", NoRange)
        /\ hand' = [hand EXCEPT ![g] = EmptyHand]
        /\ UNCHANGED <<nm_config, job_offsets, alloc_hist>>

\* the (job_id, range) pairs release_gpu_ranges collects, job after job
RangesOfGpu(gpu_index) ==
    LET RECURSIVE Collect(_)
        Collect(S) ==
            IF S = {} THEN <<>>
            ELSE LET k == CHOOSE x \in S : TRUE
                 IN SelectSeq(active_ranges[k], LAMBDA r : r.gpu_index = gpu_index)
                    \o Collect(S \ {k})
    IN Collect(DOMAIN active_ranges)

RECURSIVE CompleteAll(_, _)
CompleteAll(s, todo) ==
    IF todo = <<>> THEN s
    ELSE CompleteAll(CompleteRangeOn(s, Head(todo).job_id, Head(todo)), Tail(todo))

\* release_gpu_ranges(gpu_index)
ReleaseGpuRanges(gpu_index) ==
    LET todo == RangesOfGpu(gpu_index)
        s == CompleteAll(NmMaps, todo)
        released == {todo[i] : i \in 1..Len(todo)}
    IN  /\ MayComplete(Len(todo))
        /\ active_ranges' = s.active
        /\ recycled_ranges' = s.recycled
        /\ nm_stats' = s.stats
        /\ nm_ret' = NmRet("release_gpu_ranges", None,
                            IF s.panicked THEN "panic" ELSE "none", NoRange)
        /\ hand' = [g \in GpuIds |->
                      IF hand[g].has /\ hand[g].range \in released
                      THEN [hand[g] EXCEPT !.stale = TRUE] ELSE hand[g]]
        /\ UNCHANGED <<nm_config, job_offsets, alloc_hist>>

\* clear_job(job_id)
ClearJob(job_id) ==
    LET offsets1 == MapRemove(job_offsets, job_id)
        active1 == MapRemove(active_ranges, job_id)
    IN  /\ job_offsets' = offsets1
        /\ active_ranges' = active1
        /\ recycled_ranges' = MapRemove(recycled_ranges, job_id)
        /\ nm_stats' = [nm_stats EXCEPT !.active_jobs = Cardinality(DOMAIN offsets1),
                                        !.active_ranges = ActiveCount(active1)]
        /\ nm_ret' = NmRet("clear_job", job_id, "none", NoRange)
        /\ hand' = [g \in GpuIds |->
                      IF hand[g].has /\ hand[g].range.job_id = job_id
                      THEN [hand[g] EXCEPT !.stale = TRUE] ELSE hand[g]]
        /\ alloc_hist' = [alloc_hist EXCEPT ![job_id] = <<NoSize, NoSize>>]
        /\ UNCHANGED nm_config

\* NonceManager::new
NmInit ==
    /\ nm_config \in {[NonceManagerConfigDefault EXCEPT !.enable_recycling = b] :
                        b \in BOOLEAN}
    /\ job_offsets = EmptyMap
    /\ active_ranges = EmptyMap
    /\ recycled_ranges = EmptyMap
    /\ nm_stats = NonceStatsDefault
    /\ nm_ret = NmRet("new", None, "none", NoRange)
    /\ hand = [g \in GpuIds |-> EmptyHand]
    /\ alloc_hist = [j \in JobIds |-> <<NoSize, NoSize>>]

NmNext ==
    \/ \E j \in JobIds, g \in GpuIds, n \in RequestedSizes : AllocateRange(j, g, n)
    \/ \E g \in GpuIds : CompleteRange(g)
    \/ \E g \in GpuIds : ReleaseGpuRanges(g)
    \/ \E j \in JobIds : ClearJob(j)

(***************************************************************************)
(* Time                                                                    *)
(***************************************************************************)
\* Duration::from_secs
FromSecs(secs) == secs * TicksPerSec

\* Duration::as_secs: whole seconds, the rest is cut off
AsSecs(ticks) == ticks \div TicksPerSec

\* the clock advances, up to `limit`
Tick(limit) ==
    /\ now < limit
    /\ now' = now + 1

(***************************************************************************)
(* Hash256: the bytes of a hash, first byte first (scaled from 32 bytes)   *)
(***************************************************************************)
Hashes == {<<2, 0>>, <<0, 2>>}

Targets == {<<1, 1>>}

\* Hash256::meets_target: the bytes are compared from the last one down
MeetsTarget(hash, target) ==
    LET differ == {i \in 1..Len(hash) : hash[i] # target[i]}
        i == CHOOSE x \in differ : \A y \in differ : y <= x
    IN  IF differ = {} THEN TRUE ELSE hash[i] < target[i]

(***************************************************************************)
(* ShareValidator                                                          *)
(***************************************************************************)
\* impl Default for ShareValidatorConfig, scaled
ShareValidatorConfigDefault ==
    [detect_duplicates |-> TRUE, duplicate_cache_ttl |-> 1, duplicate_cache_size |-> 1,
     validate_nonce_range |-> TRUE, fast_verify |-> TRUE]

\* the configurations the validator is built with
ShareValidatorConfigs ==
    {ShareValidatorConfigDefault,
     [ShareValidatorConfigDefault EXCEPT !.detect_duplicates = FALSE],
     [ShareValidatorConfigDefault EXCEPT !.duplicate_cache_size = 0],
     [ShareValidatorConfigDefault EXCEPT !.duplicate_cache_ttl = 0],
     [ShareValidatorConfigDefault EXCEPT !.validate_nonce_range = FALSE],
     [ShareValidatorConfigDefault EXCEPT !.fast_verify = FALSE]}

ValidationStatsDefault ==
    [total_shares_validated |-> 0, valid_shares |-> 0, stale_shares |-> 0,
     duplicate_shares |-> 0, invalid_shares |-> 0, below_target_shares |-> 0,
     out_of_range_nonces |-> 0]

\* the nonces of the results workers report
ResultNonces == {0, 1, 5}

\* no validate_result call
NoCall == [called |-> FALSE, nonce |-> 0, hash |-> <<>>, job_id |-> None,
           result |-> None, allocated |-> FALSE, valid_before |-> 0,
           valid_after |-> 0, duplicate_before |-> 0, duplicate_after |-> 0]

\* is_job_active
IsJobActive(job_id) == job_id \in sv_active_jobs

\* is_duplicate
IsDuplicate(nonce, hash, job_id) ==
    \/ hash \in recent_hashes
    \/ \E i \in 1..Len(share_history) :
          share_history[i].nonce = nonce /\ share_history[i].job_id = job_id

\* add_to_history's cleanup loop: front entries go while expired or over the size
RECURSIVE Cleanup(_, _, _)
Cleanup(history, hashes, cutoff) ==
    IF history = <<>> THEN [history |-> history, hashes |-> hashes]
    ELSE IF \/ Head(history).timestamp < cutoff
            \/ Len(history) > sv_config.duplicate_cache_size
         THEN Cleanup(Tail(history), hashes \ {Head(history).hash}, cutoff)
         ELSE [history |-> history, hashes |-> hashes]

\* add_to_history with the time to live left out of the cutoff
AddToHistoryNoTtl(nonce, hash, job_id, elapsed) ==
    LET entry == [nonce |-> nonce, hash |-> hash, job_id |-> job_id, timestamp |-> now]
    IN  Cleanup(Append(share_history, entry), recent_hashes \cup {hash}, now + elapsed)

\* add_to_history; `elapsed` ticks pass between its two readings of the clock
AddToHistory(nonce, hash, job_id, elapsed) ==
    LET entry == [nonce |-> nonce, hash |-> hash, job_id |-> job_id, timestamp |-> now]
        cutoff == (now + elapsed) - FromSecs(sv_config.duplicate_cache_ttl)
    IN  Cleanup(Append(share_history, entry), recent_hashes \cup {hash}, cutoff)

\* verify_hash_fast
VerifyHashFast(nonce, hash) ==
    /\ ~(nonce = 0 \/ nonce = MaxU64)
    /\ ~(\A i \in 1..Len(hash) : hash[i] = 0)
    /\ ~(\A i \in 1..Len(hash) : hash[i] = 255)

\* validate_result with the target compared before the duplicate check
ValidationOutcomeTargetFirst(nonce, hash, target, job_id) ==
    IF ~IsJobActive(job_id) THEN "UnknownJob"
    ELSE IF /\ sv_config.validate_nonce_range
            /\ nonce_validator
            /\ ~IsNonceAllocated(job_id, nonce) THEN "InvalidNonce"
    ELSE IF ~MeetsTarget(hash, target) THEN "BelowTarget"
    ELSE IF sv_config.detect_duplicates /\ IsDuplicate(nonce, hash, job_id)
         THEN "Duplicate"
    ELSE IF sv_config.fast_verify /\ ~VerifyHashFast(nonce, hash) THEN "InvalidHash"
    ELSE "Valid"

\* the outcome of validate_result's checks, in the order the code makes them
ValidationOutcome(nonce, hash, target, job_id) ==
    IF ~IsJobActive(job_id) THEN "UnknownJob"
    ELSE IF /\ sv_config.validate_nonce_range
            /\ nonce_validator
            /\ ~IsNonceAllocated(job_id, nonce) THEN "InvalidNonce"
    ELSE IF sv_config.detect_duplicates /\ IsDuplicate(nonce, hash, job_id)
         THEN "Duplicate"
    ELSE IF ~MeetsTarget(hash, target) THEN "BelowTarget"
    ELSE IF sv_config.fast_verify /\ ~VerifyHashFast(nonce, hash) THEN "InvalidHash"
    ELSE "Valid"

\* the statistics after validate_result returned `outcome`
StatsAfter(outcome) ==
    LET s == [sv_stats EXCEPT !.total_shares_validated = @ + 1]
    IN  CASE outcome = "UnknownJob" -> [s EXCEPT !.invalid_shares = @ + 1]
          [] outcome = "InvalidNonce" -> [s EXCEPT !.out_of_range_nonces = @ + 1]
          [] outcome = "Duplicate" -> [s EXCEPT !.duplicate_shares = @ + 1]
          [] outcome = "BelowTarget" -> [s EXCEPT !.below_target_shares = @ + 1]
          [] outcome = "InvalidHash" -> [s EXCEPT !.invalid_shares = @ + 1]
          [] outcome = "Valid" -> [s EXCEPT !.valid_shares = @ + 1]

\* validate_result(result, header, target, job_id, gpu_index)
ValidateResult(nonce, hash, target, job_id, elapsed) ==
    LET outcome == ValidationOutcome(nonce, hash, target, job_id)
        added == AddToHistory(nonce, hash, job_id, elapsed)
        stats1 == StatsAfter(outcome)
    IN  /\ sv_stats.total_shares_validated < MaxValidations
        /\ now + elapsed <= MaxTime
        /\ outcome # "Valid" => elapsed = 0
        /\ now' = now + elapsed
        /\ sv_stats' = stats1
        /\ IF outcome = "Valid"
           THEN /\ share_history' = added.history
                /\ recent_hashes' = added.hashes
           ELSE UNCHANGED <<share_history, recent_hashes>>
        /\ sv_ret' = [called |-> TRUE, nonce |-> nonce, hash |-> hash, job_id |-> job_id,
                      result |-> outcome,
                      allocated |-> IsNonceAllocated(job_id, nonce),
                      valid_before |-> sv_stats.valid_shares,
                      valid_after |-> stats1.valid_shares,
                      duplicate_before |-> sv_stats.duplicate_shares,
                      duplicate_after |-> stats1.duplicate_shares]
        /\ sv_repeat' = (/\ sv_ret.called
                         /\ sv_ret.result = "Valid"
                         /\ sv_ret.nonce = nonce
                         /\ sv_ret.hash = hash
                         /\ sv_ret.job_id = job_id)
        /\ UNCHANGED <<sv_config, sv_active_jobs, nonce_validator>>

\* something else than validate_result happens: it has no call right before it
Interrupted ==
    /\ sv_repeat' = FALSE
    /\ sv_ret' = NoCall

\* register_job(job_id)
RegisterJob(job_id) ==
    /\ sv_active_jobs' = sv_active_jobs \cup {job_id}
    /\ Interrupted
    /\ UNCHANGED <<sv_config, share_history, recent_hashes, nonce_validator, sv_stats>>

\* unregister_job(job_id)
UnregisterJob(job_id) ==
    /\ sv_active_jobs' = sv_active_jobs \ {job_id}
    /\ Interrupted
    /\ UNCHANGED <<sv_config, share_history, recent_hashes, nonce_validator, sv_stats>>

\* clear_history
ClearHistory ==
    /\ share_history' = <<>>
    /\ recent_hashes' = {}
    /\ Interrupted
    /\ UNCHANGED <<sv_config, sv_active_jobs, nonce_validator, sv_stats>>

\* ShareValidator::new, then set_nonce_manager when `wired`
SvInit(wired) ==
    /\ sv_config \in ShareValidatorConfigs
    /\ share_history = <<>>
    /\ recent_hashes = {}
    /\ sv_active_jobs = {}
    /\ nonce_validator = wired
    /\ sv_stats = ValidationStatsDefault
    /\ sv_ret = NoCall
    /\ sv_repeat = FALSE

(***************************************************************************)
(* JobQueue                                                                *)
(***************************************************************************)
\* impl Default for JobQueueConfig, scaled
JobQueueConfigDefault ==
    [max_queue_size |-> 2, max_job_age_secs |-> 1, backup_job_count |-> 2]

\* bounded(10), the capacity of the high priority channel, scaled
HighPriorityCapacity == 2

QueueStatsDefault ==
    [total_jobs_received |-> 0, total_jobs_processed |-> 0, clean_jobs_received |-> 0,
     jobs_dropped_age |-> 0, jobs_dropped_overflow |-> 0, current_queue_depth |-> 0]

\* Option<QueuedJob>::None; the jobs received are numbered from 1
NoJob == [seq |-> 0, job_id |-> None, clean |-> FALSE, received_at |-> 0]

JqRet(op, kind, job, path, high_before, pending) ==
    [op |-> op, kind |-> kind, job |-> job, path |-> path,
     age |-> IF job = NoJob THEN 0 ELSE now - job.received_at,
     high_before |-> high_before, pending |-> pending]

\* the numbers of the jobs in a channel
RECURSIVE Seqs(_)
Seqs(q) == IF q = <<>> THEN <<>> ELSE <<Head(q).seq>> \o Seqs(Tail(q))

\* received_at.elapsed().as_secs()
AgeSecs(job) == AsSecs(now - job.received_at)

\* get_queue_depth
GetQueueDepth(high, norm) == Len(high) + Len(norm)

\* add_backup_job
RECURSIVE AddBackupJob(_, _)
AddBackupJob(backups, job) ==
    IF backups # <<>> /\ Len(backups) >= jq_config.backup_job_count
    THEN AddBackupJob(Tail(backups), job)
    ELSE Append(backups, job)

\* get_backup_job: the newest backup that is at most twice the maximum age old
GetBackupJob ==
    LET valid == {i \in 1..Len(backup_jobs) :
                     AgeSecs(backup_jobs[i]) <= jq_config.max_job_age_secs * 2}
    IN  IF valid = {} THEN NoJob
        ELSE backup_jobs[CHOOSE i \in valid : \A k \in valid : k <= i]

\* add_job(job, header, target)
AddJob(job_id, clean) ==
    LET stats1 == [jq_stats EXCEPT
                      !.total_jobs_received = @ + 1,
                      !.clean_jobs_received = IF clean THEN @ + 1 ELSE @]
        queued_job == [seq |-> stats1.total_jobs_received, job_id |-> job_id,
                       clean |-> clean, received_at |-> now]
        \* clear_normal_queue, for a clean job only
        normal1 == IF clean THEN <<>> ELSE normal
        sent == IF clean THEN Len(high_priority) < HighPriorityCapacity
                ELSE Len(normal) < jq_config.max_queue_size
        high2 == IF clean /\ sent THEN Append(high_priority, queued_job)
                 ELSE high_priority
        normal2 == IF ~clean /\ sent THEN Append(normal1, queued_job) ELSE normal1
    IN  /\ ~jq_stuck
        /\ jq_stats.total_jobs_received < MaxJobs
        /\ jq_config.backup_job_count > 0
        /\ high_priority' = high2
        /\ normal' = normal2
        /\ IF sent
           THEN /\ jq_stats' = [stats1 EXCEPT
                                   !.current_queue_depth = GetQueueDepth(high2, normal2)]
                /\ backup_jobs' = IF clean THEN backup_jobs
                                  ELSE AddBackupJob(backup_jobs, queued_job)
           ELSE /\ jq_stats' = [stats1 EXCEPT !.jobs_dropped_overflow = @ + 1]
                /\ UNCHANGED backup_jobs
        /\ jq_ret' = JqRet("add_job", IF sent THEN "ok" ELSE "err", queued_job, "none",
                           Seqs(high_priority), jq_pending)
        /\ jq_pending' = IF clean /\ sent THEN queued_job.seq ELSE jq_pending
        /\ UNCHANGED <<jq_config, current_job, jq_stuck, jq_clean_returned>>

\* set_current_job, by a caller that holds the stats lock (`locked`) or does not
SetCurrentJob(s, job, path) ==
    IF s.locked
    THEN [s EXCEPT !.current = job, !.hang = TRUE]
    ELSE [s EXCEPT !.current = job, !.ret = job, !.path = path,
                   !.stats = [@ EXCEPT !.total_jobs_processed = @ + 1,
                                       !.current_queue_depth =
                                           GetQueueDepth(s.high, s.norm)]]

\* get_next_job polling the normal channel before the high priority channel
GetNextJobOnNormalFirst(s) ==
    IF s.norm # <<>>
    THEN SetCurrentJob([s EXCEPT !.norm = Tail(@)], Head(s.norm), "normal")
    ELSE IF s.high # <<>>
    THEN SetCurrentJob([s EXCEPT !.high = Tail(@)], Head(s.high), "high")
    ELSE [s EXCEPT !.ret = NoJob]

\* get_next_job on the queue state s; it calls itself after dropping an aged job,
\* with the stats lock still held
RECURSIVE GetNextJobOn(_)
GetNextJobOn(s) ==
    IF s.high # <<>>
    THEN SetCurrentJob([s EXCEPT !.high = Tail(@)], Head(s.high), "high")
    ELSE IF s.norm # <<>>
    THEN LET job == Head(s.norm)
             s1 == [s EXCEPT !.norm = Tail(@)]
         IN  IF AgeSecs(job) > jq_config.max_job_age_secs
             THEN IF s1.locked THEN [s1 EXCEPT !.hang = TRUE]
                  ELSE GetNextJobOn([s1 EXCEPT !.locked = TRUE,
                                               !.stats.jobs_dropped_age = @ + 1])
             ELSE SetCurrentJob(s1, job, "normal")
    ELSE LET job == GetBackupJob
         IN  [s EXCEPT !.ret = job, !.path = IF job = NoJob THEN "none" ELSE "backup"]

\* get_next_job()
GetNextJob ==
    LET s == GetNextJobOn([high |-> high_priority, norm |-> normal,
                           current |-> current_job, stats |-> jq_stats,
                           locked |-> jq_stuck, hang |-> FALSE, ret |-> NoJob,
                           path |-> "none"])
    IN  /\ high_priority' = s.high
        /\ normal' = s.norm
        /\ current_job' = s.current
        /\ jq_stats' = s.stats
        /\ jq_stuck' = (jq_stuck \/ s.hang)
        /\ jq_ret' = JqRet("get_next_job",
                           IF s.hang THEN "hang"
                           ELSE IF s.ret = NoJob THEN "none" ELSE "some",
                           s.ret, s.path, Seqs(high_priority), jq_pending)
        /\ jq_pending' = 0
        /\ jq_clean_returned' = IF ~s.hang /\ s.ret.clean THEN s.ret.seq
                                ELSE jq_clean_returned
        /\ UNCHANGED <<jq_config, backup_jobs>>

\* JobQueue::new
JqInit ==
    /\ jq_config = JobQueueConfigDefault
    /\ high_priority = <<>>
    /\ normal = <<>>
    /\ current_job = NoJob
    /\ backup_jobs = <<>>
    /\ jq_stats = QueueStatsDefault
    /\ jq_stuck = FALSE
    /\ jq_ret = JqRet("new", "none", NoJob, "none", <<>>, 0)
    /\ jq_pending = 0
    /\ jq_clean_returned = 0

(***************************************************************************)
(* WorkDistributor.  Each GPU worker g is a thread that calls get_work(g)  *)
(* and submit_result; one more thread calls update_job.  An operation is   *)
(* cut into steps where it takes a lock it may have to wait for.           *)
(***************************************************************************)
\* impl Default for WorkDistributorConfig, scaled; the threshold in tenths, the
\* timeout (60 s) in ticks
WorkDistributorConfigDefault ==
    [base_work_size |-> 4, min_work_size |-> 2, max_work_size |-> 6,
     queue_depth |-> 2, work_timeout |-> FromSecs(1), dynamic_sizing |-> TRUE,
     work_stealing_threshold |-> 1]

\* num_gpus
NumGpus == Cardinality(GpuIds)

\* #[derive(Default)] struct GpuStats; average_hashrate is kept as zero or not zero
GpuStatsDefault ==
    [units_completed |-> 0, total_hashes |-> 0, hashrate_nonzero |-> FALSE,
     solutions_found |-> 0, stale_shares |-> 0]

\* Option<WorkUnit>::None
NoUnit == [id |-> NoSize, job_id |-> None, nonce_start |-> 0, nonce_count |-> 0,
           gpu_index |-> 0, created_at |-> 0]

IdleWorker == [pc |-> "idle", op |-> "none", work |-> NoUnit, pending |-> NoUnit,
               ret |-> NoUnit, first |-> FALSE]

IdleUpdater == [pc |-> "idle", job_id |-> None, clean |-> FALSE, todo |-> {},
                next |-> 0, pending |-> NoUnit]

\* hashes_computed of the results submitted
HashesComputed == {1, MaxU64}

\* worker g holds the RefMut of its queue, taken by get_mut in get_work
WqLocked(g) == wk[g].op = "get_work" /\ wk[g].pc \in {"popped", "gen", "push"}

\* the workers that hold a read guard of current_job across a call of
\* generate_work_for_gpu
CjReaders == {g \in GpuIds : wk[g].pc \in {"gen", "push"}}

\* the thread of update_job waits for the write lock of current_job: a new reader
\* queues behind it
WriterWaiting == uj.pc = "write_wait"

\* units that operations under way may still generate
Reserved ==
    Cardinality({g \in GpuIds : wk[g].pc \in {"called", "popped", "submitted", "gen"}})
    + (IF uj.pc = "idle" THEN 0
       ELSE IF uj.pc = "push" THEN NumGpus - uj.next - 1
       ELSE IF uj.pc = "gen" THEN NumGpus - uj.next
       ELSE NumGpus)

\* calculate_work_size: the sizes it can return for this GPU
WorkSizes(gpu_index) ==
    IF ~wd_config.dynamic_sizing THEN {wd_config.base_work_size}
    ELSE IF \A g \in GpuIds : ~gpu_stats[g].hashrate_nonzero
         THEN {wd_config.base_work_size}
    ELSE IF ~gpu_stats[gpu_index].hashrate_nonzero THEN {wd_config.min_work_size}
    ELSE {wd_config.min_work_size, wd_config.base_work_size, wd_config.max_work_size}

\* generate_work_for_gpu up to the unit it creates: the counters are advanced
NewUnit(gpu_index, work_size) ==
    [id |-> next_work_id, job_id |-> wd_current_job,
     nonce_start |-> global_nonce_offset, nonce_count |-> work_size,
     gpu_index |-> gpu_index, created_at |-> now]

Counted(work_size) ==
    /\ global_nonce_offset' = (global_nonce_offset + work_size) % U64Mod
    /\ next_work_id' = next_work_id + 1

\* generate_work_for_gpu from get_mut on: the unit is queued unless the queue is full
Pushed(gpu_index, unit) ==
    work_queues' =
        [work_queues EXCEPT ![gpu_index] =
            IF Len(@) < wd_config.queue_depth * 2 THEN Append(@, unit) ELSE @]

\* the ids of a set of units
Ids(units) == {u.id : u \in units}

\* DashMap::insert(work.id, work)
ActiveInsert(unit) == {u \in active_work : u.id # unit.id} \cup {unit}

\* get_work(gpu_index) is called
GetWorkCall(g) ==
    /\ wk[g].pc = "idle"
    /\ next_work_id + Reserved < MaxUnits
    /\ wk' = [wk EXCEPT ![g] = [IdleWorker EXCEPT !.pc = "called", !.op = "get_work",
                                                  !.first = wd_fresh[g]]]
    /\ wd_fresh' = [wd_fresh EXCEPT ![g] = FALSE]
    /\ UNCHANGED <<wd_config, wd_current_job, next_work_id, active_work, gpu_stats,
                   work_queues, global_nonce_offset, uj, wd_calls>>

\* get_work: get_mut(gpu_index) and queue.pop()
GetWorkPop(g) ==
    LET queue == work_queues[g]
        work == queue[Len(queue)]
        rest == SubSeq(queue, 1, Len(queue) - 1)
    IN  /\ wk[g].pc = "called"
        /\ IF queue # <<>>
           THEN /\ work_queues' = [work_queues EXCEPT ![g] = rest]
                /\ active_work' = ActiveInsert(work)
                /\ wk' = [wk EXCEPT ![g] =
                            IF Len(rest) < wd_config.queue_depth
                            THEN [@ EXCEPT !.pc = "popped", !.work = work]
                            ELSE [@ EXCEPT !.pc = "idle", !.ret = work]]
           ELSE /\ wk' = [wk EXCEPT ![g] =
                            IF wd_config.work_stealing_threshold > 0
                            THEN [@ EXCEPT !.pc = "steal"]
                            ELSE [@ EXCEPT !.pc = "idle"]]
                /\ UNCHANGED <<work_queues, active_work>>
        /\ UNCHANGED <<wd_config, wd_current_job, next_work_id, gpu_stats,
                       global_nonce_offset, uj, wd_calls, wd_fresh>>

\* get_work and submit_result: current_job.read(), the guard kept while
\* generate_work_for_gpu runs
ReadCurrentJob(g) ==
    /\ wk[g].pc \in {"popped", "submitted"}
    /\ ~WriterWaiting
    /\ wk' = [wk EXCEPT ![g] =
                IF wd_current_job # None THEN [@ EXCEPT !.pc = "gen"]
                ELSE [@ EXCEPT !.pc = "idle", !.ret = wk[g].work, !.work = NoUnit]]
    /\ UNCHANGED <<wd_config, wd_current_job, next_work_id, active_work, gpu_stats,
                   work_queues, global_nonce_offset, uj, wd_calls, wd_fresh>>

\* generate_work_for_gpu called by worker g: current_job.read() once more, then the
\* unit is created
GenerateUnit(g, work_size) ==
    /\ wk[g].pc = "gen"
    /\ ~WriterWaiting
    /\ work_size \in WorkSizes(g)
    /\ Counted(work_size)
    /\ wk' = [wk EXCEPT ![g] = [@ EXCEPT !.pc = "push",
                                         !.pending = NewUnit(g, work_size)]]
    /\ UNCHANGED <<wd_config, wd_current_job, active_work, gpu_stats, work_queues,
                   uj, wd_calls, wd_fresh>>

\* generate_work_for_gpu called by worker g: get_mut(gpu_index) and push; the caller
\* returns
PushUnit(g) ==
    /\ wk[g].pc = "push"
    /\ ~WqLocked(g)
    /\ Pushed(g, wk[g].pending)
    /\ wk' = [wk EXCEPT ![g] = [@ EXCEPT !.pc = "idle", !.ret = wk[g].work,
                                         !.work = NoUnit, !.pending = NoUnit]]
    /\ UNCHANGED <<wd_config, wd_current_job, next_work_id, active_work, gpu_stats,
                   global_nonce_offset, uj, wd_calls, wd_fresh>>

\* steal_work(gpu_index): the victim is a GPU with the longest queue
StealWork(g) ==
    LET others == GpuIds \ {g}
        longest == {v \in others :
                       /\ Len(work_queues[v]) > 0
                       /\ \A x \in others : Len(work_queues[x]) <= Len(work_queues[v])}
    IN  /\ wk[g].pc = "steal"
        /\ \A v \in GpuIds : ~WqLocked(v)
        /\ \/ /\ longest = {} \/ \A v \in longest : Len(work_queues[v]) <= 1
              /\ wk' = [wk EXCEPT ![g] = [@ EXCEPT !.pc = "idle"]]
              /\ UNCHANGED work_queues
           \/ \E v \in longest :
                 LET queue == work_queues[v]
                 IN  /\ Len(queue) > 1
                     /\ work_queues' =
                            [work_queues EXCEPT ![v] = SubSeq(queue, 1, Len(queue) - 1)]
                     /\ wk' = [wk EXCEPT ![g] =
                                 [@ EXCEPT !.pc = "idle",
                                           !.ret = [queue[Len(queue)] EXCEPT
                                                       !.gpu_index = g]]]
        /\ UNCHANGED <<wd_config, wd_current_job, next_work_id, active_work, gpu_stats,
                       global_nonce_offset, uj, wd_calls, wd_fresh>>

\* submit_result that counts the solution on every GPU
SubmitResultCountsEverywhere(g, work_id, found, hashes_computed, hashrate_nonzero) ==
    LET sum == gpu_stats[g].total_hashes + hashes_computed
        panic == sum > MaxU64 /\ overflow_checks
    IN  /\ wk[g].pc = "idle"
        /\ wd_calls.submits < MaxSubmits
        /\ next_work_id + Reserved < MaxUnits
        /\ wd_calls' = [wd_calls EXCEPT !.submits = @ + 1,
                                        !.active_unit = \E u \in active_work : u.id = work_id]
        /\ active_work' = {u \in active_work : u.id # work_id}
        /\ gpu_stats' = [o \in GpuIds |->
               IF o # g THEN [gpu_stats[o] EXCEPT !.solutions_found =
                                                     IF found THEN @ + 1 ELSE @]
               ELSE IF panic THEN [gpu_stats[g] EXCEPT !.units_completed = @ + 1]
               ELSE [gpu_stats[g] EXCEPT !.units_completed = @ + 1,
                                         !.total_hashes = sum % U64Mod,
                                         !.hashrate_nonzero = @ \/ hashrate_nonzero,
                                         !.solutions_found = IF found THEN @ + 1 ELSE @]]
        /\ wk' = [wk EXCEPT ![g] =
                    [IdleWorker EXCEPT !.pc = IF panic THEN "panicked" ELSE "submitted",
                                       !.op = "submit_result"]]
        /\ UNCHANGED <<wd_config, wd_current_job, next_work_id, work_queues,
                       global_nonce_offset, uj, wd_fresh>>

\* submit_result(result), up to the update of the statistics
SubmitResult(g, work_id, found, hashes_computed, hashrate_nonzero) ==
    LET sum == gpu_stats[g].total_hashes + hashes_computed
        panic == sum > MaxU64 /\ overflow_checks
    IN  /\ wk[g].pc = "idle"
        /\ wd_calls.submits < MaxSubmits
        /\ next_work_id + Reserved < MaxUnits
        /\ wd_calls' = [wd_calls EXCEPT !.submits = @ + 1,
                                        !.active_unit = \E u \in active_work : u.id = work_id]
        /\ active_work' = {u \in active_work : u.id # work_id}
        /\ gpu_stats' = [gpu_stats EXCEPT ![g] =
               IF panic THEN [@ EXCEPT !.units_completed = @ + 1]
               ELSE [@ EXCEPT !.units_completed = @ + 1,
                              !.total_hashes = sum % U64Mod,
                              !.hashrate_nonzero = @ \/ hashrate_nonzero,
                              !.solutions_found = IF found THEN @ + 1 ELSE @]]
        /\ wk' = [wk EXCEPT ![g] =
                    [IdleWorker EXCEPT !.pc = IF panic THEN "panicked" ELSE "submitted",
                                       !.op = "submit_result"]]
        /\ UNCHANGED <<wd_config, wd_current_job, next_work_id, work_queues,
                       global_nonce_offset, uj, wd_fresh>>

\* update_job(job, header, target) is called: clear_all_work clears the active units
UpdateJobCall(job_id, clean) ==
    /\ uj.pc = "idle"
    /\ wd_calls.updates < MaxUpdates
    /\ next_work_id + Reserved + NumGpus <= MaxUnits
    /\ wd_calls' = [wd_calls EXCEPT !.updates = @ + 1,
                                    !.reclaimed = IF clean THEN @ \cup Ids(active_work)
                                                  ELSE @]
    /\ uj' = [IdleUpdater EXCEPT !.pc = IF clean THEN "clear" ELSE "write",
                                 !.job_id = job_id, !.clean = clean,
                                 !.todo = IF clean THEN GpuIds ELSE {}]
    /\ active_work' = IF clean THEN {} ELSE active_work
    /\ wd_fresh' = [g \in GpuIds |-> FALSE]
    /\ wk' = [g \in GpuIds |-> [wk[g] EXCEPT !.first = FALSE]]
    /\ UNCHANGED <<wd_config, wd_current_job, next_work_id, gpu_stats, work_queues,
                   global_nonce_offset>>

\* clear_all_work: iter_mut reaches the queue of g and clears it
UpdateJobClear(g) ==
    /\ uj.pc = "clear"
    /\ g \in uj.todo
    /\ ~WqLocked(g)
    /\ work_queues' = [work_queues EXCEPT ![g] = <<>>]
    /\ uj' = [uj EXCEPT !.todo = @ \ {g},
                        !.pc = IF uj.todo = {g} THEN "write" ELSE "clear"]
    /\ UNCHANGED <<wd_config, wd_current_job, next_work_id, active_work, gpu_stats,
                   global_nonce_offset, wk, wd_calls, wd_fresh>>

\* update_job: *current_job.write() = Some(job), which waits while a reader is in
UpdateJobWrite ==
    /\ uj.pc \in {"write", "write_wait"}
    /\ IF CjReaders = {}
       THEN /\ wd_current_job' = uj.job_id
            /\ uj' = [uj EXCEPT !.pc = "store"]
       ELSE /\ uj.pc = "write"
            /\ uj' = [uj EXCEPT !.pc = "write_wait"]
            /\ UNCHANGED wd_current_job
    /\ UNCHANGED <<wd_config, next_work_id, active_work, gpu_stats, work_queues,
                   global_nonce_offset, wk, wd_calls, wd_fresh>>

\* update_job: global_nonce_offset.store(0)
UpdateJobStore ==
    /\ uj.pc = "store"
    /\ global_nonce_offset' = 0
    /\ uj' = [uj EXCEPT !.pc = "gen", !.next = 0]
    /\ UNCHANGED <<wd_config, wd_current_job, next_work_id, active_work, gpu_stats,
                   work_queues, wk, wd_calls, wd_fresh>>

\* update_job: generate_work_for_gpu(gpu_idx) creates the unit
UpdateJobGenerate(work_size) ==
    /\ uj.pc = "gen"
    /\ work_size \in WorkSizes(uj.next)
    /\ Counted(work_size)
    /\ uj' = [uj EXCEPT !.pc = "push", !.pending = NewUnit(uj.next, work_size)]
    /\ UNCHANGED <<wd_config, wd_current_job, active_work, gpu_stats, work_queues,
                   wk, wd_calls, wd_fresh>>

\* update_job: generate_work_for_gpu(gpu_idx) queues the unit; after the last GPU
\* update_job returns
UpdateJobPush ==
    /\ uj.pc = "push"
    /\ ~WqLocked(uj.next)
    /\ Pushed(uj.next, uj.pending)
    /\ IF uj.next + 1 = NumGpus
       THEN /\ uj' = [IdleUpdater EXCEPT !.job_id = uj.job_id, !.clean = uj.clean]
            /\ wd_fresh' = [g \in GpuIds |-> TRUE]
       ELSE /\ uj' = [uj EXCEPT !.pc = "gen", !.next = @ + 1, !.pending = NoUnit]
            /\ UNCHANGED wd_fresh
    /\ UNCHANGED <<wd_config, wd_current_job, next_work_id, active_work, gpu_stats,
                   global_nonce_offset, wk, wd_calls>>

\* the active units created more than work_timeout ago
TimedOut == {u \in active_work : now - u.created_at > wd_config.work_timeout}

\* check_timeouts(): the timed out units leave the active map and count as stale
\* on their GPU
CheckTimeouts ==
    /\ active_work' = active_work \ TimedOut
    /\ gpu_stats' =
           [g \in GpuIds |->
               [gpu_stats[g] EXCEPT !.stale_shares =
                   @ + Cardinality({u \in TimedOut : u.gpu_index = g})]]
    /\ wd_calls' = [wd_calls EXCEPT !.reclaimed = @ \cup Ids(TimedOut)]
    /\ UNCHANGED <<wd_config, wd_current_job, next_work_id, work_queues,
                   global_nonce_offset, wk, uj, wd_fresh>>

\* WorkDistributor::new(config, num_gpus)
WdInit ==
    /\ wd_config = WorkDistributorConfigDefault
    /\ wd_current_job = None
    /\ next_work_id = 0
    /\ active_work = {}
    /\ gpu_stats = [g \in GpuIds |-> GpuStatsDefault]
    /\ work_queues = [g \in GpuIds |-> <<>>]
    /\ global_nonce_offset = 0
    /\ wk = [g \in GpuIds |-> IdleWorker]
    /\ uj = IdleUpdater
    /\ wd_calls = [updates |-> 0, submits |-> 0, active_unit |-> FALSE,
                   reclaimed |-> {}]
    /\ wd_fresh = [g \in GpuIds |-> FALSE]

(***************************************************************************)
(* Hash256: calls of meets_target                                          *)
(***************************************************************************)
\* the bytes of a hash, [u8; 32] scaled to HashLen bytes of 0..MaxByte
HashLen == 3

MaxByte == 2

\* a byte has 256 values
ByteBase == 256

AllHashes == [1..HashLen -> 0..MaxByte]

\* no call yet
NoTargetCheck == [called |-> FALSE, result |-> FALSE]

\* hash.meets_target(&target) is called on the hash and the target at hand
MeetsTargetCall ==
    /\ ~mt_ret.called
    /\ mt_ret' = [called |-> TRUE, result |-> MeetsTarget(mt_hash, mt_target)]
    /\ UNCHANGED <<mt_hash, mt_target>>

\* a hash and a target at hand, before any call
HtInit(hash, target) ==
    /\ mt_hash = hash
    /\ mt_target = target
    /\ mt_ret = NoTargetCheck

(***************************************************************************)
(* GpuScheduler                                                            *)
(***************************************************************************)
MaxSelects == 2

MaxThrottles == 2

\* percentages run to 100
Percent == 100

Strategies == {"RoundRobin", "LeastLoaded", "PerformanceBased", "PowerEfficient",
               "Weighted"}

\* impl Default for GpuSchedulerConfig, scaled: thermal_throttle 85 -> 2,
\* rebalance_interval 30 s -> 1 s
GpuSchedulerConfigDefault ==
    [strategy |-> "PerformanceBased", load_balance_threshold |-> 20,
     thermal_throttle |-> 2, power_limit |-> None, adaptive_scheduling |-> TRUE,
     rebalance_interval |-> 1]

\* impl Default for GpuLoad
GpuLoadDefault ==
    [utilization |-> 0, memory_usage |-> 0, temperature |-> 0, power_watts |-> 0,
     hashrate |-> 0]

\* the capability GpuScheduler::new gives every GPU, scaled: max_hashrate 100 MH/s
\* -> 1 with 1 GH/s -> 10, max_power_watts 300 -> 3
GpuCapabilityDefault ==
    [max_hashrate |-> 1, max_power_watts |-> 3, performance_tier |-> 1]

\* max_hashrate / 1_000_000_000.0 in select_weighted, on the scale of the capability
HashrateNorm == 10

\* the loads the telemetry reports: below, at and above the thermal threshold
ReportedLoads ==
    {[utilization |-> 0, memory_usage |-> 0, temperature |-> 1, power_watts |-> 0,
      hashrate |-> 0],
     [utilization |-> 50, memory_usage |-> 0, temperature |-> 1, power_watts |-> 2,
      hashrate |-> 1],
     [utilization |-> 50, memory_usage |-> 0, temperature |-> 2, power_watts |-> 2,
      hashrate |-> 1],
     [utilization |-> 0, memory_usage |-> 0, temperature |-> 3, power_watts |-> 0,
      hashrate |-> 0],
     [utilization |-> 0, memory_usage |-> 0, temperature |-> 3, power_watts |-> 1,
      hashrate |-> 1]}

SchedulingStatsDefault ==
    [total_scheduled |-> 0, rebalances_performed |-> 0, thermal_throttles |-> 0,
     power_throttles |-> 0]

\* Option<usize>::None
NoGpu == NoSize

NoSelect == [called |-> FALSE, gpu |-> NoGpu, hot |-> FALSE]

\* load.temperature > self.config.thermal_throttle
Overheated(g) == gpu_loads[g].temperature > gs_config.thermal_throttle

\* update_gpu_load(load)
UpdateGpuLoad(g, load) ==
    LET hot == load.temperature > gs_config.thermal_throttle
        over == /\ gs_config.power_limit # None
                /\ load.power_watts > gs_config.power_limit
    IN  /\ ~gs_stuck
        /\ hot => gs_stats.thermal_throttles < MaxThrottles
        /\ over => gs_stats.power_throttles < MaxThrottles
        /\ gpu_loads' = [gpu_loads EXCEPT ![g] = load]
        /\ gs_stats' = [gs_stats EXCEPT
                           !.thermal_throttles = IF hot THEN @ + 1 ELSE @,
                           !.power_throttles = IF over THEN @ + 1 ELSE @]
        /\ UNCHANGED <<gs_config, round_robin_counter, last_rebalance, gs_stuck, gs_ret>>

\* select_round_robin
SelectRoundRobin == {round_robin_counter % NumGpus}

\* a loop over the HashMap that keeps the first GPU with a strictly better score:
\* any of the best ones, as the order of iteration is arbitrary
Best(candidates, Better(_, _)) ==
    {g \in candidates : \A h \in candidates : ~Better(h, g)}

\* select_least_loaded: utilization * 0.7 + memory_usage * 0.3, times 10
LoadScore(g) == gpu_loads[g].utilization * 7 + gpu_loads[g].memory_usage * 3

\* select_least_loaded without the check of the temperature
SelectLeastLoadedAnyTemperature ==
    LET Lower(h, g) == LoadScore(h) < LoadScore(g)
    IN  Best(GpuIds, Lower)

SelectLeastLoaded ==
    LET Lower(h, g) == LoadScore(h) < LoadScore(g)
        best == Best({g \in GpuIds : ~Overheated(g)}, Lower)
    IN  IF best = {} THEN {NoGpu} ELSE best

\* select_performance_based: the score, times 100 * thermal_throttle * 10
PerformanceScore(g) ==
    GpuCapabilityDefault.max_hashrate
        * (Percent - gpu_loads[g].utilization)
        * (gs_config.thermal_throttle - gpu_loads[g].temperature)
        * (10 + GpuCapabilityDefault.performance_tier)

SelectPerformanceBased ==
    LET Higher(h, g) == PerformanceScore(h) > PerformanceScore(g)
        best == Best({g \in GpuIds : ~Overheated(g)}, Higher)
    IN  IF best = {} THEN {NoGpu} ELSE best

\* select_power_efficient: hashrate / power_watts, halved at or above the threshold;
\* the factor is doubled here
TempFactor(g) ==
    IF gpu_loads[g].temperature < gs_config.thermal_throttle THEN 2 ELSE 1

SelectPowerEfficient ==
    LET measured == {g \in GpuIds : gpu_loads[g].power_watts # 0
                                      /\ gpu_loads[g].hashrate # 0}
        MoreEfficient(h, g) ==
            gpu_loads[h].hashrate * TempFactor(h) * gpu_loads[g].power_watts
                > gpu_loads[g].hashrate * TempFactor(g) * gpu_loads[h].power_watts
        best == Best(measured, MoreEfficient)
    IN  IF best = {} THEN SelectLeastLoaded ELSE best

\* select_weighted: the total score, times
\* 10 * HashrateNorm * Percent * thermal_throttle * max_power_watts
WeightedScore(g) ==
    LET cap == GpuCapabilityDefault
        load == gpu_loads[g]
        thr == gs_config.thermal_throttle
        spare == IF load.power_watts > 0 THEN cap.max_power_watts - load.power_watts
                 ELSE cap.max_power_watts
    IN  4 * cap.max_hashrate * Percent * thr * cap.max_power_watts
        + 3 * (Percent - load.utilization) * HashrateNorm * thr * cap.max_power_watts
        + 2 * (thr - load.temperature) * HashrateNorm * Percent * cap.max_power_watts
        + 1 * spare * HashrateNorm * Percent * thr

SelectWeighted ==
    LET Higher(h, g) == WeightedScore(h) > WeightedScore(g)
    IN  Best(GpuIds, Higher)

\* the GPUs the strategy of the configuration can return
Selected ==
    CASE gs_config.strategy = "RoundRobin" -> SelectRoundRobin
      [] gs_config.strategy = "LeastLoaded" -> SelectLeastLoaded
      [] gs_config.strategy = "PerformanceBased" -> SelectPerformanceBased
      [] gs_config.strategy = "PowerEfficient" -> SelectPowerEfficient
      [] gs_config.strategy = "Weighted" -> SelectWeighted

\* check_rebalance finds the interval over and the utilizations too far apart: it
\* takes the stats lock, which select_gpu holds
RebalanceDue ==
    LET utils == {gpu_loads[g].utilization : g \in GpuIds}
        max_util == SetMax(utils \cup {0})
        min_util == SetMin(utils \cup {Percent})
    IN  /\ gs_config.adaptive_scheduling
        /\ ~(now - last_rebalance < FromSecs(gs_config.rebalance_interval))
        /\ max_util - min_util > gs_config.load_balance_threshold

\* select_gpu()
SelectGpu ==
    /\ ~gs_stuck
    /\ gs_stats.total_scheduled < MaxSelects
    /\ gs_stats' = [gs_stats EXCEPT !.total_scheduled = @ + 1]
    /\ IF RebalanceDue
       THEN /\ gs_stuck' = TRUE
            /\ gs_ret' = NoSelect
            /\ UNCHANGED round_robin_counter
       ELSE /\ \E gpu \in Selected :
                  gs_ret' = [called |-> TRUE, gpu |-> gpu,
                             hot |-> gpu # NoGpu /\ Overheated(gpu)]
            /\ round_robin_counter' =
                  IF gs_config.strategy = "RoundRobin" THEN round_robin_counter + 1
                  ELSE round_robin_counter
            /\ UNCHANGED gs_stuck
    /\ UNCHANGED <<gs_config, gpu_loads, last_rebalance>>

\* GpuScheduler::new(config, num_gpus)
GsInit(config) ==
    /\ gs_config = config
    /\ gpu_loads = [g \in GpuIds |-> GpuLoadDefault]
    /\ round_robin_counter = 0
    /\ last_rebalance = now
    /\ gs_stats = SchedulingStatsDefault
    /\ gs_stuck = FALSE
    /\ gs_ret = NoSelect

(***************************************************************************)
(* StratumConnection (mineos-stratum/src/connection.rs)                    *)
(***************************************************************************)
\* how many send_request calls the model follows
MaxRequests == 2

\* the ids requests carry; NoRequestId is a request without an id
RequestIds == {1, 2}
NoRequestId == NoSize

\* mpsc::channel(100) of requests
RequestChannelCapacity == 100

\* response_timeout, in seconds
ResponseTimeout == 1

ConnectionStates ==
    {"Disconnected", "Connecting", "Connected", "Authenticated", "Reconnecting", "Failed"}

\* no request in the write task's hand
NoRequest == NoSize

\* is_connected()
IsConnected == cn_state \in {"Connected", "Authenticated"}

\* the send_request calls made so far, by their serial number
Calls == 1..Len(cn_calls)

\* the entries of pending_requests under an id
EntriesOf(id) == {e \in pending_requests : e.id = id}

\* connect_once: the TCP connect succeeds or fails; on success the stream is stored,
\* the state becomes Connected and start_tasks spawns the read and the write task.
\* On failure the state stays Connecting.
ConnectOnce(ok) ==
    /\ cn_state \in {"Disconnected", "Connecting"}
    /\ cn_read = "none"
    /\ IF ok
       THEN /\ cn_state' = "Connected"
            /\ cn_stream' = [cn_stream EXCEPT !.opt = "Some"]
            /\ cn_read' = "start"
            /\ cn_write' = [pc |-> "recv", req |-> NoRequest]
       ELSE /\ cn_state' = "Connecting"
            /\ UNCHANGED <<cn_stream, cn_read, cn_write>>
    /\ UNCHANGED <<if_let_rescope, pending_requests, request_ch, cn_disc, cn_calls,
                   transport>>

\* read task: `if let Some(mut framed) = stream.lock().await.take()`.  The framed
\* stream leaves the mutex; the guard of the scrutinee lives on through the body of
\* the `if let` unless the build drops it before the body.
ReadTake ==
    /\ cn_read = "start"
    /\ ~cn_stream.held
    /\ IF cn_stream.opt = "Some"
       THEN /\ cn_read' = "loop"
            /\ cn_stream' = [opt |-> "None", held |-> ~if_let_rescope]
       ELSE /\ cn_read' = "done"
            /\ UNCHANGED cn_stream
    /\ UNCHANGED <<if_let_rescope, cn_state, pending_requests, request_ch, cn_write,
                   cn_disc, cn_calls, transport>>

\* read task: a response to a request the pool has received comes in; the entry under
\* its id is removed and the response is sent to the call that waits on it
ReadResponse(c) ==
    /\ cn_read = "loop"
    /\ \E i \in 1..Len(transport) : transport[i] = c
    /\ LET id == cn_calls[c].id
       IN /\ pending_requests' = pending_requests \ EntriesOf(id)
          /\ cn_calls' = [k \in Calls |->
                            IF /\ \E e \in EntriesOf(id) : e.call = k
                               /\ cn_calls[k].pc = "wait"
                            THEN [cn_calls[k] EXCEPT !.pc = "Ok"]
                            ELSE cn_calls[k]]
    /\ UNCHANGED <<if_let_rescope, cn_state, cn_stream, request_ch, cn_read, cn_write,
                   cn_disc, transport>>

\* read task: the loop ends, on a read error (state becomes Disconnected) or at the
\* end of the stream; `*stream.lock().await = Some(framed)` then puts the stream
\* back, or waits for the mutex the task itself still holds
ReadEnd(error) ==
    /\ cn_read = "loop"
    /\ cn_state' = IF error THEN "Disconnected" ELSE cn_state
    /\ IF cn_stream.held
       THEN /\ cn_read' = "stuck"
            /\ UNCHANGED cn_stream
       ELSE /\ cn_read' = "done"
            /\ cn_stream' = [cn_stream EXCEPT !.opt = "Some"]
    /\ UNCHANGED <<if_let_rescope, pending_requests, request_ch, cn_write, cn_disc,
                   cn_calls, transport>>

\* write task: `rx.recv().await` hands it the next request of the channel
WriteRecv ==
    /\ cn_write.pc = "recv"
    /\ request_ch # <<>>
    /\ cn_write' = [pc |-> "lock", req |-> Head(request_ch)]
    /\ request_ch' = Tail(request_ch)
    /\ UNCHANGED <<if_let_rescope, cn_state, cn_stream, pending_requests, cn_read,
                   cn_disc, cn_calls, transport>>

\* write task: `if let Some(framed) = stream.lock().await.as_mut()`: with the stream
\* in the mutex the request is written (or the write fails: Disconnected, break);
\* with None in the mutex the body is skipped and the loop goes on
WriteSend(ok) ==
    /\ cn_write.pc = "lock"
    /\ ~cn_stream.held
    /\ IF cn_stream.opt = "Some"
       THEN IF ok
            THEN /\ transport' = Append(transport, cn_write.req)
                 /\ cn_write' = [pc |-> "recv", req |-> NoRequest]
                 /\ UNCHANGED cn_state
            ELSE /\ cn_state' = "Disconnected"
                 /\ cn_write' = [pc |-> "done", req |-> NoRequest]
                 /\ UNCHANGED transport
       ELSE /\ cn_write' = [pc |-> "recv", req |-> NoRequest]
            /\ UNCHANGED <<cn_state, transport>>
    /\ UNCHANGED <<if_let_rescope, cn_stream, pending_requests, request_ch, cn_read,
                   cn_disc, cn_calls>>

\* send_request up to the wait for the response: refused unless connected; the
\* response channel is registered under the id, replacing an entry already there;
\* the request goes into the channel (the send waits while the channel is full)
SendRequest(id) ==
    /\ Len(cn_calls) < MaxRequests
    /\ LET c == Len(cn_calls) + 1
       IN IF ~IsConnected
          THEN /\ cn_calls' = Append(cn_calls, [id |-> id, pc |-> "NotConnected", at |-> now])
               /\ UNCHANGED <<pending_requests, request_ch>>
          ELSE /\ Len(request_ch) < RequestChannelCapacity
               /\ pending_requests' =
                     IF id = NoRequestId THEN pending_requests
                     ELSE (pending_requests \ EntriesOf(id)) \cup {[id |-> id, call |-> c]}
               /\ request_ch' = Append(request_ch, c)
               /\ cn_calls' = Append(cn_calls,
                                     [id |-> id,
                                      pc |-> IF id = NoRequestId THEN "Ok" ELSE "wait",
                                      at |-> now])
    /\ UNCHANGED <<if_let_rescope, cn_state, cn_stream, cn_read, cn_write, cn_disc,
                   transport>>

\* the sender of call c's response channel is still in the map
OwnEntry(c) == [id |-> cn_calls[c].id, call |-> c] \in pending_requests

\* send_request: `timeout(response_timeout, rx.recv())` elapses with no response
\* and the channel open
TimeoutFires(c) ==
    /\ cn_calls[c].pc = "wait"
    /\ OwnEntry(c)
    /\ now - cn_calls[c].at >= FromSecs(ResponseTimeout)
    /\ cn_calls' = [cn_calls EXCEPT ![c].pc = "fired"]
    /\ UNCHANGED <<if_let_rescope, cn_state, cn_stream, pending_requests, request_ch,
                   cn_read, cn_write, cn_disc, transport>>

\* send_request after the timeout, as a mutant: the entry stays in the map
TimeoutRemoveKeepsEntry(c) ==
    /\ cn_calls[c].pc = "fired"
    /\ cn_calls' = [cn_calls EXCEPT ![c].pc = "Timeout"]
    /\ UNCHANGED <<if_let_rescope, cn_state, cn_stream, pending_requests, request_ch,
                   cn_read, cn_write, cn_disc, transport>>

\* send_request after the timeout: `pending_requests.lock().await.remove(id)`, then
\* Err(Timeout)
TimeoutRemove(c) ==
    /\ cn_calls[c].pc = "fired"
    /\ pending_requests' = pending_requests \ EntriesOf(cn_calls[c].id)
    /\ cn_calls' = [cn_calls EXCEPT ![c].pc = "Timeout"]
    /\ UNCHANGED <<if_let_rescope, cn_state, cn_stream, request_ch, cn_read, cn_write,
                   cn_disc, transport>>

\* send_request: the sender was dropped from the map without a response (the entry
\* was replaced or the map cleared): rx.recv() yields None, "Response channel closed"
ChannelClosed(c) ==
    /\ cn_calls[c].pc = "wait"
    /\ ~OwnEntry(c)
    /\ cn_calls' = [cn_calls EXCEPT ![c].pc = "Closed"]
    /\ UNCHANGED <<if_let_rescope, cn_state, cn_stream, pending_requests, request_ch,
                   cn_read, cn_write, cn_disc, transport>>

\* disconnect: the state becomes Disconnected, then the stream mutex is awaited
DisconnectCall ==
    /\ cn_disc = "idle"
    /\ cn_read # "none"
    /\ cn_state' = "Disconnected"
    /\ cn_disc' = "take"
    /\ UNCHANGED <<if_let_rescope, cn_stream, pending_requests, request_ch, cn_read,
                   cn_write, cn_calls, transport>>

\* disconnect: the stream is taken out of the mutex and closed, the map is cleared
DisconnectTake ==
    /\ cn_disc = "take"
    /\ ~cn_stream.held
    /\ cn_stream' = [cn_stream EXCEPT !.opt = "None"]
    /\ pending_requests' = {}
    /\ cn_disc' = "done"
    /\ UNCHANGED <<if_let_rescope, cn_state, request_ch, cn_read, cn_write, cn_calls,
                   transport>>

\* set_authenticated(true), which the client calls when the pool has answered its
\* authorize request
SetAuthenticated ==
    /\ \E c \in Calls : cn_calls[c].pc = "Ok" /\ cn_calls[c].id # NoRequestId
    /\ cn_state # "Authenticated"
    /\ cn_state' = "Authenticated"
    /\ UNCHANGED <<if_let_rescope, cn_stream, pending_requests, request_ch, cn_read,
                   cn_write, cn_disc, cn_calls, transport>>

\* StratumConnection::new
CnInit(rescope) ==
    /\ if_let_rescope = rescope
    /\ cn_state = "Disconnected"
    /\ cn_stream = [opt |-> "None", held |-> FALSE]
    /\ pending_requests = {}
    /\ request_ch = <<>>
    /\ cn_read = "none"
    /\ cn_write = [pc |-> "none", req |-> NoRequest]
    /\ cn_disc = "idle"
    /\ cn_calls = <<>>
    /\ transport = <<>>

(***************************************************************************)
(* StratumClient (mineos-stratum/src/client.rs): the share buffer          *)
(***************************************************************************)
\* how many shares the miner hands to submit_share
MaxShares == 4

\* the requests sent on one session
MaxSent == 5
\* u32::MAX, scaled
MaxU32 == 7

\* the largest share_buffer_size the model configures
MaxBufferSize == 2

\* the threads that call submit_share
Submitters == {1, 2}

\* submit_share: `if queue.len() >= share_buffer_size { queue.pop_front(); }` on a
\* VecDeque, where pop_front of an empty queue does nothing; then push_back.
\* As a mutant: the new share is refused when the buffer is full.
EnqueueUnlessFull(queue, share, size) ==
    IF Len(queue) >= size THEN queue ELSE Append(queue, share)

Enqueue(queue, share, size) ==
    LET popped == IF Len(queue) >= size /\ queue # <<>> THEN Tail(queue) ELSE queue
    IN  Append(popped, share)

\* pool.is_connected(): the active connection is Connected or Authenticated
PoolIsConnected == cl_pool \in {"Connected", "Authenticated"}

\* submit_share, first block: the share goes into the buffer under the queue lock
SubmitShareEnqueue(t) ==
    /\ cl_submit[t] = "idle"
    /\ cl_shares < MaxShares
    /\ cl_shares' = cl_shares + 1
    /\ share_queue' = Enqueue(share_queue, cl_shares + 1, share_buffer_size)
    /\ cl_submit' = [cl_submit EXCEPT ![t] = "flush"]
    /\ UNCHANGED <<share_buffer_size, cl_pool, pool_shares, pool_answers, cl_stats,
                   cl_handler>>

\* the responses of a pool to mining.submit: the result true, the result false
\* (error null), an error object
PoolAnswers == {"true", "false", "error"}

\* process_share_queue, the Ok(response) arm: `if let Some(error) = response.error`
\* counts a rejected share, everything else an accepted one
CountAnswer(stats, answer) ==
    IF answer = "error" THEN [stats EXCEPT !.shares_rejected = @ + 1]
    ELSE [stats EXCEPT !.shares_accepted = @ + 1]

\* the statistics after the answers were counted one after the other
RECURSIVE CountAnswers(_, _)
CountAnswers(stats, answers) ==
    IF answers = <<>> THEN stats
    ELSE CountAnswers(CountAnswer(stats, Head(answers)), Tail(answers))

\* the answers a pool can give to the first shares of the queue
AnswersTo(queue) == UNION {[1..n -> PoolAnswers] : n \in 0..Len(queue)}

\* submit_share, second block: `if self.pool.is_connected() { process_share_queue }`.
\* process_share_queue holds the queue lock throughout: the shares are sent from
\* the front, the first Len(answers) of them get a response before the first
\* send_request fails or the queue ends; each response is counted and those
\* shares are removed.
SubmitShareFlush(t, answers) ==
    LET processed == Len(answers)
    IN  /\ cl_submit[t] = "flush"
        /\ processed \in 0..Len(share_queue)
        /\ ~PoolIsConnected => processed = 0
        /\ pool_shares' = pool_shares \o SubSeq(share_queue, 1, processed)
        /\ pool_answers' = pool_answers \o answers
        /\ cl_stats' = CountAnswers(cl_stats, answers)
        /\ share_queue' = SubSeq(share_queue, processed + 1, Len(share_queue))
        /\ cl_submit' = [cl_submit EXCEPT ![t] = "idle"]
        /\ UNCHANGED <<share_buffer_size, cl_pool, cl_shares, cl_handler>>

\* start_share_handler: interval.tick() every 5 seconds
ShareHandlerTick ==
    /\ cl_handler = "sleep"
    /\ cl_handler' = "check"
    /\ UNCHANGED <<share_buffer_size, share_queue, cl_pool, cl_shares, cl_submit,
                   pool_shares, pool_answers, cl_stats>>

\* start_share_handler: `if !share_queue.is_empty() && pool.is_connected() { }`:
\* the body is a comment, and the loop goes back to the tick
ShareHandlerCheck ==
    /\ cl_handler = "check"
    /\ cl_handler' = "sleep"
    /\ UNCHANGED <<share_buffer_size, share_queue, cl_pool, cl_shares, cl_submit,
                   pool_shares, pool_answers, cl_stats>>

\* the session as the client sees it: the connection is lost; a connection is made
\* (pool.connect); the pool answers authorize with true (set_authenticated)
PoolSessionChanges(state) ==
    /\ \/ state = "Disconnected" /\ cl_pool # "Disconnected"
       \/ state = "Connected" /\ cl_pool = "Disconnected"
       \/ state = "Authenticated" /\ cl_pool = "Connected"
    /\ cl_pool' = state
    /\ UNCHANGED <<share_buffer_size, share_queue, cl_shares, cl_submit, pool_shares,
                   pool_answers, cl_stats,
                   cl_handler>>

\* StratumClient::new(config), before start()
ClInit(size) ==
    /\ share_buffer_size = size
    /\ share_queue = <<>>
    /\ cl_pool = "Disconnected"
    /\ cl_shares = 0
    /\ cl_submit = [t \in Submitters |-> "idle"]
    /\ pool_shares = <<>>
    /\ pool_answers = <<>>
    /\ cl_stats = [shares_accepted |-> 0, shares_rejected |-> 0]
    /\ cl_handler = "sleep"

(***************************************************************************)
(* ConnectionPool (mineos-stratum/src/pool.rs): failover                   *)
(***************************************************************************)
\* how many times connect_to_best_pool is called
MaxConnects == 2

\* the largest priority, weight and latency a pool is configured or measured with
MaxPoolValue == 1

\* config.pools: the names, in configuration order
PoolNames == <<"p1", "p2">>

FailoverStrategies == {"Priority", "RoundRobin", "Weighted", "LowestLatency"}

\* Err(NoPoolsAvailable) of a strategy function
NoPoolsAvailable == "NoPoolsAvailable"

\* no failover call yet
NoFailover ==
    [pc |-> "idle", current |-> None, tried |-> <<>>, iter |-> 0, attempted |-> <<>>,
     ret |-> "none"]

\* the elements of a sequence
Elems(q) == {q[i] : i \in 1..Len(q)}

\* pools.iter().filter(|p| p.enabled && !exclude.contains(&Some(p.name)))
EnabledExcluding(exclude) ==
    SelectSeq(pl_pools, LAMBDA p : p.enabled /\ p.name \notin Elems(exclude))

\* Iterator::min_by_key(..).map(|p| p.name).ok_or(NoPoolsAvailable): the first of
\* the elements with the least key
MinByKey(pools, Key(_)) ==
    IF pools = <<>> THEN NoPoolsAvailable
    ELSE LET first == SetMin({i \in 1..Len(pools) :
                                 \A j \in 1..Len(pools) : Key(pools[i]) <= Key(pools[j])})
         IN  pools[first].name

\* get_priority_pool_excluding(exclude); get_priority_pool is the same with nothing
\* excluded
GetPriorityPoolExcluding(exclude) ==
    MinByKey(EnabledExcluding(exclude), LAMBDA p : p.priority)

\* get_round_robin_pool: the first enabled pool
GetRoundRobinPool ==
    LET pools == EnabledExcluding(<<>>)
    IN  IF pools = <<>> THEN NoPoolsAvailable ELSE pools[1].name

\* get_next_pool_after(current)
GetNextPoolAfter(current) ==
    LET pools == EnabledExcluding(<<>>)
        at == {i \in 1..Len(pools) : pools[i].name = current}
    IN  IF pools = <<>> THEN NoPoolsAvailable
        ELSE IF current # None /\ at # {}
        THEN pools[(SetMin(at) % Len(pools)) + 1].name
        ELSE pools[1].name

\* the loop over the pools of get_weighted_pool, with `random` left to subtract
RECURSIVE WeightedWalk(_, _, _)
WeightedWalk(pools, i, random) ==
    IF i > Len(pools) THEN pools[1].name
    ELSE IF random < pools[i].weight THEN pools[i].name
    ELSE WeightedWalk(pools, i + 1, random - pools[i].weight)

RECURSIVE TotalWeight(_)
TotalWeight(pools) ==
    IF pools = <<>> THEN 0 ELSE Head(pools).weight + TotalWeight(Tail(pools))

\* get_weighted_pool_excluding(exclude) with the random number drawn;
\* gen_range(0..0) panics
GetWeightedPoolExcluding(exclude, random) ==
    LET pools == EnabledExcluding(exclude)
    IN  IF pools = <<>> THEN NoPoolsAvailable
        ELSE IF TotalWeight(pools) = 0 THEN "panic"
        ELSE WeightedWalk(pools, 1, random % TotalWeight(pools))

\* get_lowest_latency_pool_excluding(exclude)
GetLowestLatencyPoolExcluding(exclude) ==
    MinByKey(EnabledExcluding(exclude), LAMBDA p : pl_latency[p.name])

\* connect_to_best_pool: the pool the strategy names first
BestPool(random) ==
    CASE failover_strategy = "Priority" -> GetPriorityPoolExcluding(<<>>)
      [] failover_strategy = "RoundRobin" -> GetRoundRobinPool
      [] failover_strategy = "Weighted" -> GetWeightedPoolExcluding(<<>>, random)
      [] failover_strategy = "LowestLatency" -> GetLowestLatencyPoolExcluding(<<>>)

\* failover: the pool of the next loop iteration
NextPool(f, random) ==
    CASE failover_strategy = "Priority" -> GetPriorityPoolExcluding(f.tried)
      [] failover_strategy = "RoundRobin" -> GetNextPoolAfter(f.current)
      [] failover_strategy = "Weighted" -> GetWeightedPoolExcluding(f.tried, random)
      [] failover_strategy = "LowestLatency" -> GetLowestLatencyPoolExcluding(f.tried)

\* connect_to_best_pool: the strategy's pool is tried; when connect_to_pool fails,
\* failover() starts with the active pool as the only pool tried
ConnectToBestPool(ok, random) ==
    /\ fo.pc # "loop"
    /\ pl_connects < MaxConnects
    /\ pl_connects' = pl_connects + 1
    /\ LET pool_name == BestPool(random)
       IN  IF pool_name \in {NoPoolsAvailable, "panic"}
           THEN /\ fo' = [NoFailover EXCEPT !.ret = pool_name]
                /\ UNCHANGED active_pool
           ELSE IF ok
           THEN /\ active_pool' = pool_name
                /\ fo' = [NoFailover EXCEPT !.ret = "Ok"]
           ELSE /\ fo' = [NoFailover EXCEPT !.pc = "loop", !.current = active_pool,
                                            !.tried = <<active_pool>>]
                /\ UNCHANGED active_pool
    /\ UNCHANGED <<pl_pools, failover_strategy, pl_latency>>

\* failover: one iteration of `for _ in 0..self.config.pools.len()`, and the
\* Err(AllPoolsFailed) after the loop
FailoverIteration(ok, random) ==
    /\ fo.pc = "loop"
    /\ LET next_pool == NextPool(fo, random)
           last == fo.iter + 1 >= Len(pl_pools)
       IN  IF fo.iter >= Len(pl_pools) \/ next_pool = NoPoolsAvailable
           THEN /\ fo' = [fo EXCEPT !.pc = "done", !.ret = "AllPoolsFailed"]
                /\ UNCHANGED active_pool
           ELSE IF next_pool = "panic"
           THEN /\ fo' = [fo EXCEPT !.pc = "done", !.ret = "panic"]
                /\ UNCHANGED active_pool
           ELSE IF ok
           THEN /\ active_pool' = next_pool
                /\ fo' = [fo EXCEPT !.pc = "done", !.ret = "Ok",
                                    !.attempted = Append(@, next_pool)]
           ELSE /\ fo' = [fo EXCEPT !.attempted = Append(@, next_pool),
                                    !.tried = Append(@, next_pool),
                                    !.iter = @ + 1,
                                    !.pc = IF last THEN "done" ELSE "loop",
                                    !.ret = IF last THEN "AllPoolsFailed" ELSE "none"]
                /\ UNCHANGED active_pool
    /\ UNCHANGED <<pl_pools, failover_strategy, pl_latency, pl_connects>>

\* disconnect: active_pool = None
PoolDisconnect ==
    /\ fo.pc # "loop"
    /\ active_pool # None
    /\ active_pool' = None
    /\ UNCHANGED <<pl_pools, failover_strategy, pl_latency, fo, pl_connects>>

\* ConnectionPool::new(config, ..) and the metrics of the pools
PlInit(pools, strategy, latency) ==
    /\ pl_pools = pools
    /\ failover_strategy = strategy
    /\ pl_latency = latency
    /\ active_pool = None
    /\ fo = NoFailover
    /\ pl_connects = 0

\* a configuration of one enabled pool per name, FailoverStrategy::default()
PoolsDefault ==
    [i \in 1..Len(PoolNames) |->
        [name |-> PoolNames[i], priority |-> 0, weight |-> 1, enabled |-> TRUE]]

(***************************************************************************)
(* MinerOrchestrator: start, stop and the GPU worker tasks (miner.rs)      *)
(***************************************************************************)
MinerStatuses == {"Stopped", "Starting", "Mining", "Idle", "Error"}

\* where a GPU worker task is: not spawned, spawned, inside its loop, finished
WorkerPositions ==
    {"absent", "spawned", "get_work", "idle_sleep", "mining", "submit", "returned"}

\* the steps of one stop() call
StopPositions == {"none", "status_set", "signalled", "client_stopped", "returned"}

\* MinerOrchestrator::new: status Stopped, no worker task, no shutdown sender
MoInit ==
    /\ mo_status = "Stopped"
    /\ shutdown_tx = None
    /\ shutdown_rx = None
    /\ stratum_client = None
    /\ worker_tasks = [g \in GpuIds |-> "absent"]
    /\ mo_stop = "none"
    /\ mo_joined = {}

\* start(): the shutdown channel is created, its receiver is a local of start()
\* that no task is given and that is dropped when start() returns; the stratum
\* client is started (a failure returns the error, the status stays Starting);
\* one worker task per GPU is spawned; the status becomes Mining
Start(client_ok) ==
    /\ mo_status = "Stopped"
    /\ mo_stop = "none"
    /\ \A g \in GpuIds : worker_tasks[g] = "absent"
    /\ shutdown_tx' = "Some"
    /\ shutdown_rx' = "dropped"
    /\ IF client_ok
          THEN /\ stratum_client' = "started"
               /\ worker_tasks' = [g \in GpuIds |-> "spawned"]
               /\ mo_status' = "Mining"
          ELSE /\ mo_status' = "Starting"
               /\ UNCHANGED <<stratum_client, worker_tasks>>
    /\ UNCHANGED <<mo_stop, mo_joined>>

\* gpu_worker_loop before its loop: the task returns when the GPU manager has
\* no device of that index
GpuWorkerLoopBegin(g, has_device) ==
    /\ worker_tasks[g] = "spawned"
    /\ worker_tasks' = [worker_tasks EXCEPT ![g] = IF has_device THEN "get_work"
                                                                ELSE "returned"]
    /\ UNCHANGED <<mo_status, shutdown_tx, shutdown_rx, stratum_client, mo_stop, mo_joined>>

\* the head of the loop: get_work gives a unit or gives none (its own steps are
\* GetWorkCall ... PushUnit); nothing here reads the status or the channel
GpuWorkerLoopGetWork(g, outcome) ==
    /\ worker_tasks[g] = "get_work"
    /\ worker_tasks' = [worker_tasks EXCEPT ![g] = IF outcome = "Some" THEN "mining"
                                                                     ELSE "idle_sleep"]
    /\ UNCHANGED <<mo_status, shutdown_tx, shutdown_rx, stratum_client, mo_stop, mo_joined>>

\* no work: sleep 100 ms and continue
GpuWorkerLoopIdle(g) ==
    /\ worker_tasks[g] = "idle_sleep"
    /\ worker_tasks' = [worker_tasks EXCEPT ![g] = "get_work"]
    /\ UNCHANGED <<mo_status, shutdown_tx, shutdown_rx, stratum_client, mo_stop, mo_joined>>

\* a unit: the telemetry is reported and the task sleeps one second
GpuWorkerLoopMine(g) ==
    /\ worker_tasks[g] = "mining"
    /\ worker_tasks' = [worker_tasks EXCEPT ![g] = "submit"]
    /\ UNCHANGED <<mo_status, shutdown_tx, shutdown_rx, stratum_client, mo_stop, mo_joined>>

\* the result is submitted, the hashrate is stored, and the loop starts again
GpuWorkerLoopSubmit(g) ==
    /\ worker_tasks[g] = "submit"
    /\ worker_tasks' = [worker_tasks EXCEPT ![g] = "get_work"]
    /\ UNCHANGED <<mo_status, shutdown_tx, shutdown_rx, stratum_client, mo_stop, mo_joined>>

\* stop(), first statement: the status is set
StopSetStatus ==
    /\ mo_stop = "none"
    /\ mo_status \in {"Mining", "Starting"}
    /\ mo_stop' = "status_set"
    /\ mo_status' = "Stopped"
    /\ UNCHANGED <<shutdown_tx, shutdown_rx, stratum_client, worker_tasks, mo_joined>>

\* stop(): the sender is taken and () is sent; the result of send is discarded
\* (with the receiver dropped it is an error at once)
StopSendShutdown ==
    /\ mo_stop = "status_set"
    /\ mo_stop' = "signalled"
    /\ shutdown_tx' = None
    /\ UNCHANGED <<mo_status, shutdown_rx, stratum_client, worker_tasks, mo_joined>>

\* stop(): the stratum client, when there is one, is stopped
StopClient ==
    /\ mo_stop = "signalled"
    /\ mo_stop' = "client_stopped"
    /\ stratum_client' = IF stratum_client = None THEN None ELSE "stopped"
    /\ UNCHANGED <<mo_status, shutdown_tx, shutdown_rx, worker_tasks, mo_joined>>

\* the worker tasks stop() has not awaited yet, in the order of worker_tasks
ToJoin == {g \in GpuIds : worker_tasks[g] # "absent" /\ g \notin mo_joined}

\* stop(): `task.await` of the next worker task, which completes when the task
\* has returned
StopJoin ==
    /\ mo_stop = "client_stopped"
    /\ ToJoin # {}
    /\ LET g == CHOOSE t \in ToJoin : \A o \in ToJoin : t <= o
       IN  /\ worker_tasks[g] = "returned"
           /\ mo_joined' = mo_joined \cup {g}
    /\ UNCHANGED <<mo_status, shutdown_tx, shutdown_rx, stratum_client, worker_tasks, mo_stop>>

\* stop(): every task was awaited, stop returns
StopReturn ==
    /\ mo_stop = "client_stopped"
    /\ ToJoin = {}
    /\ mo_stop' = "returned"
    /\ UNCHANGED <<mo_status, shutdown_tx, shutdown_rx, stratum_client, worker_tasks, mo_joined>>

(***************************************************************************)
(* The ids of the requests of one session (protocol.rs, client.rs)         *)
(***************************************************************************)
\* the ids are u32 values, scaled to 0..MaxU32
U32Mod == MaxU32 + 1

\* StratumRequest::subscribe and ::authorize carry fixed ids
SubscribeId == 1
AuthorizeId == 2

\* the id of every keepalive ping, 999999, scaled into the range of the model
KeepaliveId == 3

\* mod rand: `static COUNTER: AtomicU32 = AtomicU32::new(1)`
CounterInit == 1

\* rand::random(): COUNTER.fetch_add(1), which wraps
RandomNext(counter) == (counter + 1) % U32Mod

\* a request with this method is waiting for its response
InFlight(method) == \E id \in DOMAIN pending_ids : pending_ids[id] = method

\* send_request on the connected session: pending_requests.insert(id, tx) puts the
\* entry in, replacing the sender of a waiting request with an equal id, whose
\* caller then finds its channel closed; the request goes to the pool
SendOnSession(method, id) ==
    /\ Len(session_requests) < MaxSent
    /\ session_requests' = Append(session_requests, [method |-> method, id |-> id])
    /\ overwritten' = (overwritten \/ id \in DOMAIN pending_ids)
    /\ pending_ids' = MapPut(pending_ids, id, method)

\* what start() does when one of its requests lost its entry to `method`'s
StartAfterSend(id) ==
    IF id \in DOMAIN pending_ids
       /\ pending_ids[id] \in {"mining.subscribe", "mining.authorize"}
    THEN "failed" ELSE cl_start

\* start(), after pool.connect(): subscribe() sends its request and waits
Subscribe ==
    /\ cl_start = "connected"
    /\ SendOnSession("mining.subscribe", SubscribeId)
    /\ cl_start' = "subscribe"
    /\ UNCHANGED COUNTER

\* start(): authorize() sends its request and waits
Authorize ==
    /\ cl_start = "subscribed"
    /\ SendOnSession("mining.authorize", AuthorizeId)
    /\ cl_start' = "authorize"
    /\ UNCHANGED COUNTER

\* process_share_queue: StratumRequest::submit(share) takes its id from COUNTER;
\* the shares are sent one after the other under the queue lock
Submit ==
    /\ ~InFlight("mining.submit")
    /\ SendOnSession("mining.submit", COUNTER)
    /\ COUNTER' = RandomNext(COUNTER)
    /\ cl_start' = StartAfterSend(COUNTER)

\* the keepalive task: a ping at every tick while the pool is connected, the first
\* tick at once
Keepalive ==
    /\ ~InFlight("mining.ping")
    /\ SendOnSession("mining.ping", KeepaliveId)
    /\ cl_start' = StartAfterSend(KeepaliveId)
    /\ UNCHANGED COUNTER

\* the response with this id arrives, or the request times out: the entry goes
\* and the caller goes on
RequestEnds(id) ==
    /\ id \in DOMAIN pending_ids
    /\ pending_ids' = MapRemove(pending_ids, id)
    /\ cl_start' = CASE pending_ids[id] = "mining.subscribe" -> "subscribed"
                     [] pending_ids[id] = "mining.authorize" -> "started"
                     [] OTHER -> cl_start
    /\ UNCHANGED <<COUNTER, session_requests, overwritten>>

\* a session right after pool.connect(), in a process that has sent no share yet
RqInit ==
    /\ COUNTER = CounterInit
    /\ session_requests = <<>>
    /\ pending_ids = EmptyMap
    /\ overwritten = FALSE
    /\ cl_start = "connected"

(***************************************************************************)
(* The lines the read task receives (connection.rs, protocol.rs)           *)
(***************************************************************************)
\* how many lines the model lets the pool send
MaxLines == 3

\* mpsc::channel(100) of notifications
NotificationChannelCapacity == 100

\* a line of JSON from the pool: its id (NoRequestId when the member is absent or
\* null), whether it has the members method and params, and whether its error
\* member, if any, has the form of StratumRpcError
Lines == [id : RequestIds \cup {NoRequestId}, method : BOOLEAN, error_ok : BOOLEAN]

NoLine == [id |-> NoRequestId, method |-> FALSE, error_ok |-> FALSE]

\* serde_json::from_str::<StratumResponse>(&line): the three fields are Options, so
\* each may be absent, and members the struct does not name are skipped; only a
\* member of the wrong form fails (id and result are Values, of any form)
ParsesAsResponse(line) == line.error_ok

\* serde_json::from_str::<StratumNotification>(&line): method and params are needed
ParsesAsNotification(line) == line.method

\* read task: a line comes in and goes through the `if let Ok(response)` chain
ReadLine(line) ==
    LET response == ParsesAsResponse(line)
        deliver == response /\ line.id # NoRequestId
        forward == ~response /\ ParsesAsNotification(line)
    IN  /\ cn_read = "loop"
        /\ cn_line.count < MaxLines
        /\ forward => Len(notification_ch) < NotificationChannelCapacity
        /\ pending_requests' = IF deliver THEN pending_requests \ EntriesOf(line.id)
                               ELSE pending_requests
        /\ cn_calls' = [k \in Calls |->
                          IF /\ deliver
                             /\ \E e \in EntriesOf(line.id) : e.call = k
                             /\ cn_calls[k].pc = "wait"
                          THEN [cn_calls[k] EXCEPT !.pc = "Ok"]
                          ELSE cn_calls[k]]
        /\ notification_ch' = IF forward THEN Append(notification_ch, line)
                              ELSE notification_ch
        /\ cn_line' = [count |-> cn_line.count + 1, line |-> line,
                       as |-> IF response THEN "response"
                              ELSE IF forward THEN "notification" ELSE "unparsed"]
        /\ UNCHANGED <<if_let_rescope, cn_state, cn_stream, request_ch, cn_read,
                       cn_write, cn_disc, transport>>

\* StratumClient::new: the notification channel is empty; no line was read
LnInit ==
    /\ notification_ch = <<>>
    /\ cn_line = [count |-> 0, line |-> NoLine, as |-> "none"]

(***************************************************************************)
(* The RwLocks of the share validator and of the GPU scheduler, taken one  *)
(* at a time by threads that run concurrently                              *)
(***************************************************************************)
\* the RwLock fields the concurrent calls take more than one of
LockNames == {"sv_stats", "share_history", "recent_hashes",
              "gs_stats", "gpu_loads", "last_rebalance"}

\* no thread
NoThread == "NoThread"

\* RwLock::new: no writer, no readers
Unlocked == [writer |-> NoThread, readers |-> {}]

\* RwLock::read returns once no thread holds the write guard
CanRead(lock) == rw_locks[lock].writer = NoThread

\* RwLock::write returns once no thread holds a guard, the caller's own included
CanWrite(lock) == rw_locks[lock].writer = NoThread /\ rw_locks[lock].readers = {}

\* thread t holds a read guard of `lock` more
ReadGuard(locks, lock, t) == [locks EXCEPT ![lock].readers = @ \cup {t}]

\* thread t holds the write guard of `lock`
WriteGuard(locks, lock, t) == [locks EXCEPT ![lock].writer = t]

\* the guards thread t holds of `dropped` go out of scope
Drop(locks, dropped, t) ==
    [l \in DOMAIN locks |->
        IF l \in dropped
        THEN [writer |-> IF locks[l].writer = t THEN NoThread ELSE locks[l].writer,
              readers |-> locks[l].readers \ {t}]
        ELSE locks[l]]

\* the locks of the share validator
SvLocks == {"sv_stats", "share_history", "recent_hashes"}

\* no validate_result call is running
NoValidate == [pc |-> "idle", nonce |-> 0, hash |-> <<>>, target |-> <<>>,
               job_id |-> None]

\* validate_result after the duplicate check: the target, then verify_hash_fast
OutcomeAfterDuplicateCheck(nonce, hash, target) ==
    IF ~MeetsTarget(hash, target) THEN "BelowTarget"
    ELSE IF sv_config.fast_verify /\ ~VerifyHashFast(nonce, hash) THEN "InvalidHash"
    ELSE "Valid"

\* validate_result returns `outcome`: the counter of the outcome is written and the
\* guards of the thread are dropped
VrReturn(call, outcome, locks) ==
    LET stats1 == StatsAfter(outcome)
    IN  /\ sv_stats' = stats1
        /\ sv_ret' = [called |-> TRUE, nonce |-> call.nonce, hash |-> call.hash,
                      job_id |-> call.job_id, result |-> outcome,
                      allocated |-> IsNonceAllocated(call.job_id, call.nonce),
                      valid_before |-> sv_stats.valid_shares,
                      valid_after |-> stats1.valid_shares,
                      duplicate_before |-> sv_stats.duplicate_shares,
                      duplicate_after |-> stats1.duplicate_shares]
        /\ sv_repeat' = FALSE
        /\ rw_locks' = Drop(locks, SvLocks, "validate")
        /\ sv_call' = NoValidate

\* validate_result goes on after the duplicate check found nothing: it returns, or
\* calls add_to_history
VrAfterDuplicateCheck(locks) ==
    LET outcome == OutcomeAfterDuplicateCheck(sv_call.nonce, sv_call.hash, sv_call.target)
    IN  IF outcome = "Valid"
        THEN /\ sv_call' = [sv_call EXCEPT !.pc = "add_to_history"]
             /\ rw_locks' = locks
             /\ UNCHANGED <<sv_stats, sv_ret, sv_repeat>>
        ELSE VrReturn(sv_call, outcome, locks)

\* validate_result up to the duplicate check: the write guard of stats is taken and
\* kept, the job and the nonce range are checked
VrEnter(nonce, hash, target, job_id) ==
    LET locks == WriteGuard(rw_locks, "sv_stats", "validate")
        call == [pc |-> "is_duplicate", nonce |-> nonce, hash |-> hash,
                 target |-> target, job_id |-> job_id]
    IN  /\ sv_call.pc = "idle"
        /\ CanWrite("sv_stats")
        /\ sv_stats.total_shares_validated < MaxValidations
        /\ IF ~IsJobActive(job_id) \/ (/\ sv_config.validate_nonce_range
                                      /\ nonce_validator
                                      /\ ~IsNonceAllocated(job_id, nonce))
              \/ ~sv_config.detect_duplicates
           THEN LET outcome == ValidationOutcome(nonce, hash, target, job_id)
                IN  IF outcome = "Valid"
                    THEN /\ sv_call' = [call EXCEPT !.pc = "add_to_history"]
                         /\ rw_locks' = locks
                         /\ UNCHANGED <<sv_stats, sv_ret, sv_repeat>>
                    ELSE VrReturn(call, outcome, locks)
           ELSE /\ sv_call' = call
                /\ rw_locks' = locks
                /\ UNCHANGED <<sv_stats, sv_ret, sv_repeat>>
        /\ UNCHANGED <<sv_config, share_history, recent_hashes, sv_active_jobs,
                       nonce_validator, sv_clear>>

\* is_duplicate, first half: the read guard of recent_hashes is taken and the hash
\* looked up; the guard is kept when the hash is not there
IsDuplicateHashes ==
    LET locks == ReadGuard(rw_locks, "recent_hashes", "validate")
    IN  /\ sv_call.pc = "is_duplicate"
        /\ CanRead("recent_hashes")
        /\ IF sv_call.hash \in recent_hashes
           THEN VrReturn(sv_call, "Duplicate", locks)
           ELSE /\ sv_call' = [sv_call EXCEPT !.pc = "is_duplicate_history"]
                /\ rw_locks' = locks
                /\ UNCHANGED <<sv_stats, sv_ret, sv_repeat>>
        /\ UNCHANGED <<sv_config, share_history, recent_hashes, sv_active_jobs,
                       nonce_validator, sv_clear>>

\* is_duplicate, second half: the read guard of share_history is taken under the one
\* of recent_hashes, the history searched, both guards dropped
IsDuplicateHistory ==
    LET locks == Drop(ReadGuard(rw_locks, "share_history", "validate"),
                      {"share_history", "recent_hashes"}, "validate")
    IN  /\ sv_call.pc = "is_duplicate_history"
        /\ CanRead("share_history")
        /\ IF \E i \in 1..Len(share_history) :
                 /\ share_history[i].nonce = sv_call.nonce
                 /\ share_history[i].job_id = sv_call.job_id
           THEN VrReturn(sv_call, "Duplicate", locks)
           ELSE VrAfterDuplicateCheck(locks)
        /\ UNCHANGED <<sv_config, share_history, recent_hashes, sv_active_jobs,
                       nonce_validator, sv_clear>>

\* add_to_history, first half: the write guard of share_history is taken
AddToHistoryHistory ==
    /\ sv_call.pc = "add_to_history"
    /\ CanWrite("share_history")
    /\ rw_locks' = WriteGuard(rw_locks, "share_history", "validate")
    /\ sv_call' = [sv_call EXCEPT !.pc = "add_to_history_hashes"]
    /\ UNCHANGED <<sv_config, share_history, recent_hashes, sv_active_jobs,
                   nonce_validator, sv_stats, sv_ret, sv_repeat, sv_clear>>

\* add_to_history, second half: the write guard of recent_hashes is taken under the
\* one of share_history, the entry added, old entries removed; validate_result
\* returns Valid
AddToHistoryHashes ==
    LET added == AddToHistory(sv_call.nonce, sv_call.hash, sv_call.job_id, 0)
    IN  /\ sv_call.pc = "add_to_history_hashes"
        /\ CanWrite("recent_hashes")
        /\ share_history' = added.history
        /\ recent_hashes' = added.hashes
        /\ VrReturn(sv_call, "Valid", rw_locks)
        /\ UNCHANGED <<sv_config, sv_active_jobs, nonce_validator, sv_clear>>

\* clear_history, first half: the write guard of share_history is taken
ClearHistoryHistory ==
    /\ sv_clear = "idle"
    /\ CanWrite("share_history")
    /\ rw_locks' = WriteGuard(rw_locks, "share_history", "clear")
    /\ sv_clear' = "clear_history_hashes"
    /\ UNCHANGED <<sv_vars, sv_call>>

\* clear_history, second half: the write guard of recent_hashes is taken under the
\* one of share_history, both collections are cleared, the guards dropped
ClearHistoryHashes ==
    /\ sv_clear = "clear_history_hashes"
    /\ CanWrite("recent_hashes")
    /\ share_history' = <<>>
    /\ recent_hashes' = {}
    /\ rw_locks' = Drop(rw_locks, {"share_history", "recent_hashes"}, "clear")
    /\ sv_clear' = "idle"
    /\ UNCHANGED <<sv_config, sv_active_jobs, nonce_validator, sv_stats, sv_ret,
                   sv_repeat, sv_call>>

\* no thread runs and no lock is held
LkInit ==
    /\ rw_locks = [l \in LockNames |-> Unlocked]
    /\ sv_call = NoValidate
    /\ sv_clear = "idle"

(***************************************************************************)
(* select_gpu and update_gpu_load, lock by lock                            *)
(***************************************************************************)
\* the locks of the GPU scheduler
GsLocks == {"gs_stats", "gpu_loads", "last_rebalance"}

\* no update_gpu_load call is running
NoUpdate == [pc |-> "idle", temperature |-> 0, power_watts |-> 0]

\* select_gpu on entry: the write guard of stats is taken and kept to the return
SelectGpuEnter ==
    /\ gs_select = "idle"
    /\ ~gs_stuck
    /\ CanWrite("gs_stats")
    /\ gs_stats.total_scheduled < MaxSelects
    /\ rw_locks' = WriteGuard(rw_locks, "gs_stats", "select")
    /\ gs_stats' = [gs_stats EXCEPT !.total_scheduled = @ + 1]
    /\ gs_select' = IF gs_config.adaptive_scheduling THEN "check_rebalance"
                    ELSE "strategy"
    /\ UNCHANGED <<gs_config, gpu_loads, round_robin_counter, last_rebalance, gs_stuck,
                   gs_ret, gs_update, sv_call, sv_clear>>

\* check_rebalance: the write guard of last_rebalance is taken; before the interval
\* is over the function returns
CheckRebalanceInterval ==
    /\ gs_select = "check_rebalance"
    /\ CanWrite("last_rebalance")
    /\ IF now - last_rebalance < FromSecs(gs_config.rebalance_interval)
       THEN /\ gs_select' = "strategy"
            /\ UNCHANGED rw_locks
       ELSE /\ gs_select' = "check_rebalance_loads"
            /\ rw_locks' = WriteGuard(rw_locks, "last_rebalance", "select")
    /\ UNCHANGED <<gs_vars, gs_update, sv_call, sv_clear>>

\* check_rebalance: the read guard of gpu_loads is taken and the utilizations are
\* compared; when they are too far apart the thread asks for the write guard of
\* stats, which select_gpu holds itself: it waits for ever
CheckRebalanceLoads ==
    /\ gs_select = "check_rebalance_loads"
    /\ CanRead("gpu_loads")
    /\ IF RebalanceDue
       THEN /\ gs_select' = "check_rebalance_stats"
            /\ rw_locks' = ReadGuard(rw_locks, "gpu_loads", "select")
            /\ gs_stuck' = TRUE
       ELSE /\ gs_select' = "strategy"
            /\ rw_locks' = Drop(rw_locks, {"last_rebalance"}, "select")
            /\ UNCHANGED gs_stuck
    /\ UNCHANGED <<gs_config, gpu_loads, round_robin_counter, last_rebalance, gs_stats,
                   gs_ret, gs_update, sv_call, sv_clear>>

\* select_gpu: the strategy's function; all but select_round_robin take the read
\* guard of gpu_loads; select_gpu returns and its guards are dropped
SelectGpuStrategy ==
    /\ gs_select = "strategy"
    /\ gs_config.strategy # "RoundRobin" => CanRead("gpu_loads")
    /\ \E gpu \in Selected :
          gs_ret' = [called |-> TRUE, gpu |-> gpu,
                     hot |-> gpu # NoGpu /\ Overheated(gpu)]
    /\ round_robin_counter' =
          IF gs_config.strategy = "RoundRobin" THEN round_robin_counter + 1
          ELSE round_robin_counter
    /\ rw_locks' = Drop(rw_locks, GsLocks, "select")
    /\ gs_select' = "idle"
    /\ UNCHANGED <<gs_config, gpu_loads, last_rebalance, gs_stats, gs_stuck, gs_update,
                   sv_call, sv_clear>>

\* the throttle checks update_gpu_load still has to make, the thermal one first
NextThrottle(temperature, power_watts, thermal_done) ==
    IF ~thermal_done /\ temperature > gs_config.thermal_throttle THEN "thermal_throttle"
    ELSE IF /\ gs_config.power_limit # None
            /\ power_watts > gs_config.power_limit THEN "power_throttle"
    ELSE "idle"

\* update_gpu_load up to the throttle checks: the write guard of gpu_loads is taken
\* and kept to the return, the load is stored
UpdateGpuLoadInsert(g, load) ==
    LET next == NextThrottle(load.temperature, load.power_watts, FALSE)
    IN  /\ gs_update.pc = "idle"
        /\ CanWrite("gpu_loads")
        /\ next = "thermal_throttle" => gs_stats.thermal_throttles < MaxThrottles
        /\ gpu_loads' = [gpu_loads EXCEPT ![g] = load]
        /\ IF next = "idle"
           THEN UNCHANGED <<rw_locks, gs_update>>
           ELSE /\ rw_locks' = WriteGuard(rw_locks, "gpu_loads", "update")
                /\ gs_update' = [pc |-> next, temperature |-> load.temperature,
                                 power_watts |-> load.power_watts]
        /\ UNCHANGED <<gs_config, round_robin_counter, last_rebalance, gs_stats, gs_stuck,
                       gs_ret, gs_select, sv_call, sv_clear>>

\* update_gpu_load, a throttle check that fired: `self.stats.write()` under the
\* guard of gpu_loads, the counter incremented, the guard of stats dropped with the
\* statement; after the last check the function returns
UpdateGpuLoadThrottle ==
    LET next == NextThrottle(gs_update.temperature, gs_update.power_watts,
                             gs_update.pc = "thermal_throttle")
        thermal == gs_update.pc = "thermal_throttle"
    IN  /\ gs_update.pc \in {"thermal_throttle", "power_throttle"}
        /\ CanWrite("gs_stats")
        /\ gs_stats' = [gs_stats EXCEPT
                           !.thermal_throttles = IF thermal THEN @ + 1 ELSE @,
                           !.power_throttles = IF thermal THEN @ ELSE @ + 1]
        /\ IF next = "power_throttle"
           THEN /\ gs_update' = [gs_update EXCEPT !.pc = next]
                /\ UNCHANGED rw_locks
           ELSE /\ gs_update' = NoUpdate
                /\ rw_locks' = Drop(rw_locks, GsLocks, "update")
        /\ UNCHANGED <<gs_config, gpu_loads, round_robin_counter, last_rebalance,
                       gs_stuck, gs_ret, gs_select, sv_call, sv_clear>>

\* no thread is in select_gpu or in update_gpu_load
GlInit ==
    /\ gs_select = "idle"
    /\ gs_update = NoUpdate

(***************************************************************************)
(* The components beside mineos-core, as constructed                       *)
(***************************************************************************)
StInit ==
    /\ CnInit(FALSE)
    /\ ClInit(MaxBufferSize)
    /\ PlInit(PoolsDefault, "Priority", [n \in Elems(PoolNames) |-> 0])

LibInit ==
    /\ HtInit([i \in 1..HashLen |-> 0], [i \in 1..HashLen |-> 0])
    /\ GsInit(GpuSchedulerConfigDefault)
    /\ StInit
    /\ MoInit
    /\ RqInit
    /\ LnInit
    /\ LkInit
    /\ GlInit

(***************************************************************************)
(* Claims about the nonce manager                                          *)
(***************************************************************************)
\* two ranges share no nonce, as half-open intervals [start, end)
RangesDisjoint(r1, r2) ==
    \A n \in 0..MaxU64 : ~(RangeContains(r1, n) /\ RangeContains(r2, n))

\* C1: in every reachable state of the nonce manager, any two distinct ranges in
\* one job's active set are disjoint as half-open intervals [start, end).
C1_ActiveRangesDisjoint ==
    \A j \in DOMAIN active_ranges :
        \A a, b \in 1..Len(active_ranges[j]) :
            (a # b /\ active_ranges[j][a] # active_ranges[j][b])
                => RangesDisjoint(active_ranges[j][a], active_ranges[j][b])

\* C2: within a job, the ranges allocate_range has handed out and whose holder
\* has not given them back are pairwise disjoint, recycled ranges included: no
\* nonce of a job is held by two GPUs at once.
C2_HeldRangesDisjoint ==
    \A g1, g2 \in GpuIds :
        (/\ g1 # g2
         /\ hand[g1].has /\ ~hand[g1].stale
         /\ hand[g2].has /\ ~hand[g2].stale
         /\ hand[g1].range.job_id = hand[g2].range.job_id)
            => RangesDisjoint(hand[g1].range, hand[g2].range)

\* C8: every range allocate_range returned, fresh or recycled, is in its job's
\* active set until complete_range or clear_job: is_nonce_allocated is true for
\* every nonce of it during that time.
C8_HeldRangeIsActive ==
    \A g \in GpuIds :
        (hand[g].has /\ ~hand[g].stale)
            => \A n \in 0..MaxU64 :
                  RangeContains(hand[g].range, n)
                      => IsNonceAllocated(hand[g].range.job_id, n)

\* C9: with recycling disabled, the ranges successive successful allocate_range
\* calls return for one job have strictly increasing start.
C9_StartsStrictlyIncrease ==
    ~nm_config.enable_recycling
        => \A j \in JobIds :
              alloc_hist[j][1] # NoSize => alloc_hist[j][2] > alloc_hist[j][1]

(***************************************************************************)
(* Specifications                                                          *)
(***************************************************************************)
InitNm ==
    /\ overflow_checks \in BOOLEAN
    /\ now = 0
    /\ NmInit
    /\ SvInit(FALSE)
    /\ sv_config = ShareValidatorConfigDefault
    /\ JqInit
    /\ WdInit
    /\ LibInit

NextNm ==
    \/ \E j \in JobIds, g \in GpuIds, n \in RequestedSizes :
          AllocateRange(j, g, n) /\ UNCHANGED <<overflow_checks, lib_vars, now, sv_vars, jq_vars, wd_vars>>
    \/ \E g \in GpuIds : CompleteRange(g) /\ UNCHANGED <<overflow_checks, lib_vars, now, sv_vars, jq_vars, wd_vars>>
    \/ \E g \in GpuIds : ReleaseGpuRanges(g) /\ UNCHANGED <<overflow_checks, lib_vars, now, sv_vars, jq_vars, wd_vars>>
    \/ \E j \in JobIds : ClearJob(j) /\ UNCHANGED <<overflow_checks, lib_vars, now, sv_vars, jq_vars, wd_vars>>

\* the nonce manager under arbitrary callers
SpecNm == InitNm /\ [][NextNm]_vars

\* the same in a build that checks arithmetic overflow, where no sum wraps
InitNmChecked == InitNm /\ overflow_checks

SpecNmChecked == InitNmChecked /\ [][NextNm]_vars

(***************************************************************************)
(* Claims about the share validator                                        *)
(***************************************************************************)
\* the last two operations were validate_result calls with the same nonce, hash
\* and job id, and the first of them returned Valid
RepeatedAfterValid == sv_ret.called /\ sv_repeat

\* a call that returned Valid counted one valid share; the repeated call returned
\* Duplicate, counted one duplicate share and no valid share
SecondIsDuplicate ==
    /\ sv_ret.result = "Valid" => sv_ret.valid_after = sv_ret.valid_before + 1
    /\ sv_repeat =>
          /\ sv_ret.result = "Duplicate"
          /\ sv_ret.duplicate_after = sv_ret.duplicate_before + 1
          /\ sv_ret.valid_after = sv_ret.valid_before

\* C4 as stated: after validate_result returned Valid, the call right after it with
\* the same nonce, hash and job id returns Duplicate; the first call adds one to
\* valid_shares, the second adds one to duplicate_shares and nothing to valid_shares.
C4_RepeatIsDuplicate == sv_ret.called => SecondIsDuplicate

\* C4 amended: the same, for a validator that detects duplicates, keeps at least one
\* entry in its history and keeps entries for at least a second.
C4_RepeatIsDuplicateWhenCached ==
    (/\ sv_ret.called
     /\ sv_config.detect_duplicates
     /\ sv_config.duplicate_cache_size >= 1
     /\ sv_config.duplicate_cache_ttl >= 1) => SecondIsDuplicate

C4_Witness ==
    /\ RepeatedAfterValid
    /\ sv_config.detect_duplicates
    /\ sv_config.duplicate_cache_size >= 1
    /\ sv_config.duplicate_cache_ttl >= 1
    /\ sv_ret.result = "Duplicate"
    /\ sv_stats.duplicate_shares = 1
    /\ sv_stats.valid_shares = 1

\* the validator without the nonce manager, in each configuration, and with it, in
\* the configurations that differ in validate_nonce_range, while one worker takes a
\* range
InitSv ==
    /\ overflow_checks = FALSE
    /\ now = 0
    /\ NmInit
    /\ nm_config = NonceManagerConfigDefault
    /\ \/ SvInit(FALSE)
       \/ SvInit(TRUE) /\ sv_config.detect_duplicates /\ sv_config.fast_verify
                       /\ sv_config.duplicate_cache_size > 0
                       /\ sv_config.duplicate_cache_ttl > 0
    /\ JqInit
    /\ WdInit
    /\ LibInit

NextSv ==
    \/ \E nonce \in ResultNonces, hash \in Hashes, target \in Targets, j \in JobIds,
          elapsed \in {0, 1} :
          ValidateResult(nonce, hash, target, j, elapsed)
              /\ UNCHANGED <<overflow_checks, lib_vars, nm_vars, jq_vars, wd_vars>>
    \/ \E j \in JobIds : RegisterJob(j) /\ UNCHANGED <<overflow_checks, lib_vars, now, nm_vars, jq_vars, wd_vars>>
    \/ \E j \in JobIds : UnregisterJob(j) /\ UNCHANGED <<overflow_checks, lib_vars, now, nm_vars, jq_vars, wd_vars>>
    \/ ClearHistory /\ UNCHANGED <<overflow_checks, lib_vars, now, nm_vars, jq_vars, wd_vars>>
    \/ Tick(MaxTime) /\ Interrupted
            /\ UNCHANGED <<overflow_checks, lib_vars, nm_vars, jq_vars, wd_vars, sv_config, share_history,
                           recent_hashes, sv_active_jobs, nonce_validator, sv_stats>>
    \/ \E j \in JobIds :
          nonce_validator /\ AllocateRange(j, SetMin(GpuIds), NoSize) /\ Interrupted
              /\ UNCHANGED <<overflow_checks, lib_vars, now, jq_vars, wd_vars, sv_config, share_history,
                             recent_hashes, sv_active_jobs, nonce_validator, sv_stats>>

SpecSv == InitSv /\ [][NextSv]_vars

(***************************************************************************)
(* Claims about the job queue                                              *)
(***************************************************************************)
\* the job ids of the jobs added: the queue does not look at them
QueueJobIds == {"job1"}

\* the job queue under arbitrary callers
InitJq ==
    /\ overflow_checks = FALSE
    /\ now = 0
    /\ NmInit
    /\ nm_config = NonceManagerConfigDefault
    /\ SvInit(FALSE)
    /\ sv_config = ShareValidatorConfigDefault
    /\ JqInit
    /\ WdInit
    /\ LibInit

NextJq ==
    \/ \E j \in QueueJobIds, clean \in BOOLEAN :
          AddJob(j, clean)
              /\ UNCHANGED <<overflow_checks, lib_vars, now, nm_vars, sv_vars, wd_vars>>
    \/ GetNextJob /\ UNCHANGED <<overflow_checks, lib_vars, now, nm_vars, sv_vars, wd_vars>>
    \/ Tick(MaxQueueTime) /\ UNCHANGED <<overflow_checks, lib_vars, nm_vars, sv_vars, jq_vars, wd_vars>>

SpecJq == InitJq /\ [][NextJq]_vars

\* the last call was get_next_job and it returned a job
Dispatched == jq_ret.op = "get_next_job" /\ jq_ret.kind = "some"

C6_NoJobFromBeforeCleanJob ==
    (Dispatched /\ ~jq_ret.job.clean /\ jq_clean_returned # 0)
        => jq_ret.job.seq > jq_clean_returned

\* C7: get_next_job returns no job that was received more than max_job_age_secs
\* ago (its age counted in whole seconds, as the code counts it), from whichever of
\* the two channels or the backup store it comes.
C7_NoStaleJobDispatched ==
    Dispatched => AsSecs(jq_ret.age) <= jq_config.max_job_age_secs

(***************************************************************************)
(* Claims about the work distributor                                       *)
(***************************************************************************)
\* the work distributor with a thread per GPU worker and a thread installing jobs
InitWd ==
    /\ overflow_checks \in BOOLEAN
    /\ now = 0
    /\ NmInit
    /\ nm_config = NonceManagerConfigDefault
    /\ SvInit(FALSE)
    /\ sv_config = ShareValidatorConfigDefault
    /\ JqInit
    /\ WdInit
    /\ LibInit

\* the steps of the operation worker g is in
WorkerStep(g) ==
    \/ GetWorkPop(g)
    \/ ReadCurrentJob(g)
    \/ \E work_size \in WorkSizes(g) : GenerateUnit(g, work_size)
    \/ PushUnit(g)
    \/ StealWork(g)

\* the steps of update_job
UpdaterStep ==
    \/ \E g \in GpuIds : UpdateJobClear(g)
    \/ UpdateJobWrite
    \/ UpdateJobStore
    \/ \E work_size \in WorkSizes(uj.next) : UpdateJobGenerate(work_size)
    \/ UpdateJobPush

WdOthers == <<overflow_checks, lib_vars, now, nm_vars, sv_vars, jq_vars>>

\* the work ids a worker reports: the unit it was given, or one it never held
ReportableIds(g) == {0} \cup (IF wk[g].ret = NoUnit THEN {} ELSE {wk[g].ret.id})

NextWd ==
    \/ \E g \in GpuIds : GetWorkCall(g) /\ UNCHANGED WdOthers
    \/ \E g \in GpuIds : GetWorkPop(g) /\ UNCHANGED WdOthers
    \/ \E g \in GpuIds : ReadCurrentJob(g) /\ UNCHANGED WdOthers
    \/ \E g \in GpuIds : \E work_size \in WorkSizes(g) :
          GenerateUnit(g, work_size) /\ UNCHANGED WdOthers
    \/ \E g \in GpuIds : PushUnit(g) /\ UNCHANGED WdOthers
    \/ \E g \in GpuIds : StealWork(g) /\ UNCHANGED WdOthers
    \/ \E g \in GpuIds, found \in BOOLEAN, hashes \in HashesComputed,
          nonzero \in BOOLEAN :
          \E work_id \in ReportableIds(g) :
              SubmitResult(g, work_id, found, hashes, nonzero) /\ UNCHANGED WdOthers
    \/ \E j \in JobIds, clean \in BOOLEAN :
          UpdateJobCall(j, clean) /\ UNCHANGED WdOthers
    \/ \E g \in GpuIds : UpdateJobClear(g) /\ UNCHANGED WdOthers
    \/ UpdateJobWrite /\ UNCHANGED WdOthers
    \/ UpdateJobStore /\ UNCHANGED WdOthers
    \/ \E work_size \in WorkSizes(uj.next) :
          UpdateJobGenerate(work_size) /\ UNCHANGED WdOthers
    \/ UpdateJobPush /\ UNCHANGED WdOthers

SpecWd == InitWd /\ [][NextWd]_vars

\* the threads are scheduled: a thread that can take a step of the operation it is
\* in takes it
FairWd ==
    /\ \A g \in GpuIds : WF_vars(WorkerStep(g) /\ UNCHANGED WdOthers)
    /\ WF_vars(UpdaterStep /\ UNCHANGED WdOthers)

\* jobs are installed, the workers ask for work and report units without a
\* solution, as gpu_worker_loop does
NextGetWork ==
    \/ \E g \in GpuIds : GetWorkCall(g) /\ UNCHANGED WdOthers
    \/ \E g \in GpuIds : GetWorkPop(g) /\ UNCHANGED WdOthers
    \/ \E g \in GpuIds : ReadCurrentJob(g) /\ UNCHANGED WdOthers
    \/ \E g \in GpuIds : \E work_size \in WorkSizes(g) :
          GenerateUnit(g, work_size) /\ UNCHANGED WdOthers
    \/ \E g \in GpuIds : PushUnit(g) /\ UNCHANGED WdOthers
    \/ \E g \in GpuIds : StealWork(g) /\ UNCHANGED WdOthers
    \/ \E g \in GpuIds : \E work_id \in ReportableIds(g) :
          SubmitResult(g, work_id, FALSE, 1, FALSE) /\ UNCHANGED WdOthers
    \/ \E j \in JobIds, clean \in BOOLEAN :
          UpdateJobCall(j, clean) /\ UNCHANGED WdOthers
    \/ \E g \in GpuIds : UpdateJobClear(g) /\ UNCHANGED WdOthers
    \/ UpdateJobWrite /\ UNCHANGED WdOthers
    \/ UpdateJobStore /\ UNCHANGED WdOthers
    \/ \E work_size \in WorkSizes(uj.next) :
          UpdateJobGenerate(work_size) /\ UNCHANGED WdOthers
    \/ UpdateJobPush /\ UNCHANGED WdOthers

SpecGetWork == InitWd /\ [][NextGetWork]_vars /\ FairWd

\* worker g has called get_work(g), the first time since update_job returned
FirstGetWork(g) == wk[g].pc = "called" /\ wk[g].first

\* get_work(g) has returned a unit of GPU g with nonces to search
GotWork(g) ==
    /\ wk[g].pc = "idle"
    /\ wk[g].op = "get_work"
    /\ wk[g].ret # NoUnit
    /\ wk[g].ret.gpu_index = g
    /\ wk[g].ret.nonce_count > 0

\* C10: once update_job has installed a job, and as long as it is not called again,
\* the get_work(g) each GPU worker calls completes and returns a work unit whose
\* gpu_index is g and whose nonce_count is greater than 0.
C10_GetWorkReturnsUnit ==
    \A g \in GpuIds : FirstGetWork(g) ~> (GotWork(g) \/ ~wk[g].first)

----------------------------------------------------------------------------
\* The orchestrator: MinerOrchestrator::new builds the components, the job task runs
\* process_new_job and every GPU runs gpu_worker_loop.

\* MinerOrchestrator::new(MinerConfig::default()): each component is built from its
\* default configuration; set_nonce_manager is not called
InitOrch ==
    /\ overflow_checks = FALSE
    /\ now = 0
    /\ NmInit
    /\ nm_config = NonceManagerConfigDefault
    /\ SvInit(FALSE)
    /\ sv_config = ShareValidatorConfigDefault
    /\ JqInit
    /\ WdInit
    /\ LibInit

\* process_new_job(job): add_job, and when the job was queued register_job and
\* update_job, whose steps follow
ProcessNewJob(job_id, clean) ==
    /\ uj.pc = "idle"
    /\ AddJob(job_id, clean)
    /\ IF jq_ret'.kind = "ok"
       THEN RegisterJob(job_id) /\ UpdateJobCall(job_id, clean)
       ELSE UNCHANGED <<sv_vars, wd_vars>>

\* gpu_worker_loop: the result of the unit get_work returned is submitted, without
\* a solution
WorkerSubmit(g) ==
    /\ wk[g].ret # NoUnit
    /\ SubmitResult(g, wk[g].ret.id, FALSE, wk[g].ret.nonce_count, TRUE)

\* the nonces of a work unit
UnitNonces(u) == {n \in 0..MaxU64 : n >= u.nonce_start /\ n < u.nonce_start + u.nonce_count}

\* a GPU worker found a candidate solution in the unit it is searching, and passes it
\* through the share validator
ValidateCandidate(g, nonce, hash, target) ==
    /\ wk[g].pc = "idle"
    /\ wk[g].ret # NoUnit
    /\ nonce \in UnitNonces(wk[g].ret)
    /\ ValidateResult(nonce, hash, target, wk[g].ret.job_id, 0)

OrchOthers == <<overflow_checks, lib_vars, now, nm_vars, sv_vars, jq_vars>>

NextOrch ==
    \/ \E j \in JobIds, clean \in BOOLEAN :
          ProcessNewJob(j, clean) /\ UNCHANGED <<overflow_checks, lib_vars, now, nm_vars>>
    \/ \E g \in GpuIds : UpdateJobClear(g) /\ UNCHANGED OrchOthers
    \/ UpdateJobWrite /\ UNCHANGED OrchOthers
    \/ UpdateJobStore /\ UNCHANGED OrchOthers
    \/ \E work_size \in WorkSizes(uj.next) :
          UpdateJobGenerate(work_size) /\ UNCHANGED OrchOthers
    \/ UpdateJobPush /\ UNCHANGED OrchOthers
    \/ \E g \in GpuIds : GetWorkCall(g) /\ UNCHANGED OrchOthers
    \/ \E g \in GpuIds : GetWorkPop(g) /\ UNCHANGED OrchOthers
    \/ \E g \in GpuIds : ReadCurrentJob(g) /\ UNCHANGED OrchOthers
    \/ \E g \in GpuIds : \E work_size \in WorkSizes(g) :
          GenerateUnit(g, work_size) /\ UNCHANGED OrchOthers
    \/ \E g \in GpuIds : PushUnit(g) /\ UNCHANGED OrchOthers
    \/ \E g \in GpuIds : StealWork(g) /\ UNCHANGED OrchOthers
    \/ \E g \in GpuIds : WorkerSubmit(g) /\ UNCHANGED OrchOthers
    \/ \E g \in GpuIds, nonce \in ResultNonces, hash \in Hashes, target \in Targets :
          ValidateCandidate(g, nonce, hash, target)
              /\ UNCHANGED <<overflow_checks, lib_vars, nm_vars, jq_vars, wd_vars>>

SpecOrch == InitOrch /\ [][NextOrch]_vars

\* C3: with validate_nonce_range enabled, validate_result returns Valid only for a
\* nonce that lies in an active range the nonce manager allocated for the job.
C3_ValidOnlyIfAllocated ==
    (sv_ret.called /\ sv_ret.result = "Valid" /\ sv_config.validate_nonce_range)
        => sv_ret.allocated

----------------------------------------------------------------------------
\* Clean jobs in the work distributor.

\* update_job with clean_jobs = true has returned and was not called since
CleanJobInstalled == uj.pc = "idle" /\ uj.clean /\ uj.job_id # None

\* the units of the active-unit map and of the per-GPU queues
KnownUnits ==
    active_work \cup
    UNION {{work_queues[g][i] : i \in 1..Len(work_queues[g])} : g \in GpuIds}

\* C11: after update_job with clean_jobs = true has returned, the active-unit map
\* and every per-GPU queue hold only units of the new job, also when the workers
\* call get_work and submit_result while update_job runs.
C11_CleanJobLeavesOnlyNewUnits ==
    CleanJobInstalled => \A u \in KnownUnits : u.job_id = uj.job_id

----------------------------------------------------------------------------
\* Hash256::meets_target over all hashes and targets.

InitHash ==
    /\ overflow_checks = FALSE
    /\ now = 0
    /\ NmInit
    /\ nm_config = NonceManagerConfigDefault
    /\ SvInit(FALSE)
    /\ sv_config = ShareValidatorConfigDefault
    /\ JqInit
    /\ WdInit
    /\ \E hash \in AllHashes, target \in AllHashes : HtInit(hash, target)
    /\ GsInit(GpuSchedulerConfigDefault)
    /\ StInit
    /\ MoInit
    /\ RqInit
    /\ LnInit
    /\ LkInit
    /\ GlInit

NextHash ==
    \/ MeetsTargetCall
          /\ UNCHANGED <<overflow_checks, now, nm_vars, sv_vars, jq_vars, wd_vars,
                         gs_vars, st_vars, mo_vars, rq_vars, ln_vars, lk_vars, gl_vars>>

SpecHash == InitHash /\ [][NextHash]_vars

\* a hash read as a big-endian integer: the first byte is the most significant
RECURSIVE BigEndian(_)
BigEndian(bytes) ==
    IF bytes = <<>> THEN 0
    ELSE BigEndian(SubSeq(bytes, 1, Len(bytes) - 1)) * ByteBase + bytes[Len(bytes)]

\* C12: hash.meets_target(target) is true exactly when the hash, read as a
\* big-endian 256-bit integer, is less than or equal to the target read the same way.
C12_MeetsTargetIsBigEndianLeq ==
    mt_ret.called => (mt_ret.result <=> BigEndian(mt_hash) <= BigEndian(mt_target))

----------------------------------------------------------------------------
\* The duplicate cache of the share validator.

\* C13: the share history holds at most duplicate_cache_size entries and no entry
\* older than duplicate_cache_ttl.
C13_HistoryWithinSizeAndTtl ==
    /\ Len(share_history) <= sv_config.duplicate_cache_size
    /\ \A i \in 1..Len(share_history) :
          now - share_history[i].timestamp <= FromSecs(sv_config.duplicate_cache_ttl)

----------------------------------------------------------------------------
\* The GPU scheduler: telemetry comes in, GPUs are selected, time passes.

InitGs ==
    /\ overflow_checks = FALSE
    /\ now = 0
    /\ NmInit
    /\ nm_config = NonceManagerConfigDefault
    /\ SvInit(FALSE)
    /\ sv_config = ShareValidatorConfigDefault
    /\ JqInit
    /\ WdInit
    /\ HtInit([i \in 1..HashLen |-> 0], [i \in 1..HashLen |-> 0])
    /\ \E strategy \in Strategies, adaptive \in BOOLEAN :
          GsInit([GpuSchedulerConfigDefault EXCEPT !.strategy = strategy,
                                                  !.adaptive_scheduling = adaptive])
    /\ StInit
    /\ MoInit
    /\ RqInit
    /\ LnInit
    /\ LkInit
    /\ GlInit

GsOthers == <<overflow_checks, nm_vars, sv_vars, jq_vars, wd_vars, ht_vars, st_vars,
              mo_vars, rq_vars, ln_vars, lk_vars, gl_vars>>

NextGs ==
    \/ \E g \in GpuIds, load \in ReportedLoads :
          UpdateGpuLoad(g, load) /\ UNCHANGED <<now, GsOthers>>
    \/ SelectGpu /\ UNCHANGED <<now, GsOthers>>
    \/ Tick(MaxTime) /\ UNCHANGED <<gs_vars, GsOthers>>

SpecGs == InitGs /\ [][NextGs]_vars

\* select_gpu returned a GPU whose last reported temperature is above the threshold
HotGpuSelected == gs_ret.called /\ gs_ret.gpu # NoGpu /\ gs_ret.hot

\* C14 as claimed: under every strategy, select_gpu does not return a GPU whose last
\* update_gpu_load reported a temperature above thermal_throttle.
C14_HotGpuNeverSelected == ~HotGpuSelected

\* C14: under the LeastLoaded and PerformanceBased strategies, select_gpu does not
\* return a GPU whose last update_gpu_load reported a temperature above
\* thermal_throttle.
C14_HotGpuNeverSelectedByLoadOrPerformance ==
    gs_config.strategy \in {"LeastLoaded", "PerformanceBased"} => ~HotGpuSelected

\* under LeastLoaded, with a GPU reported hot, select_gpu returned another GPU
C14_Witness ==
    /\ gs_config.strategy = "LeastLoaded"
    /\ \E g \in GpuIds : Overheated(g)
    /\ gs_ret.called
    /\ gs_ret.gpu # NoGpu
    /\ ~gs_ret.hot

----------------------------------------------------------------------------
\* One stratum session: connect, the read and the write task, callers of
\* send_request, the pool answering, a disconnect; under either build.

InitConn ==
    /\ overflow_checks = FALSE
    /\ now = 0
    /\ NmInit
    /\ nm_config = NonceManagerConfigDefault
    /\ SvInit(FALSE)
    /\ sv_config = ShareValidatorConfigDefault
    /\ JqInit
    /\ WdInit
    /\ HtInit([i \in 1..HashLen |-> 0], [i \in 1..HashLen |-> 0])
    /\ GsInit(GpuSchedulerConfigDefault)
    /\ MoInit
    /\ RqInit
    /\ LnInit
    /\ LkInit
    /\ GlInit
    /\ \E rescope \in BOOLEAN : CnInit(rescope)
    /\ ClInit(MaxBufferSize)
    /\ PlInit(PoolsDefault, "Priority", [n \in Elems(PoolNames) |-> 0])

CnOthers == <<overflow_checks, nm_vars, sv_vars, jq_vars, wd_vars, ht_vars, gs_vars,
              cl_vars, pl_vars, mo_vars, rq_vars, ln_vars, lk_vars, gl_vars>>

NextConn ==
    \/ \E ok \in BOOLEAN : ConnectOnce(ok) /\ UNCHANGED <<now, CnOthers>>
    \/ ReadTake /\ UNCHANGED <<now, CnOthers>>
    \/ \E c \in Calls : ReadResponse(c) /\ UNCHANGED <<now, CnOthers>>
    \/ \E error \in BOOLEAN : ReadEnd(error) /\ UNCHANGED <<now, CnOthers>>
    \/ WriteRecv /\ UNCHANGED <<now, CnOthers>>
    \/ \E ok \in BOOLEAN : WriteSend(ok) /\ UNCHANGED <<now, CnOthers>>
    \/ \E id \in RequestIds \cup {NoRequestId} :
          SendRequest(id) /\ UNCHANGED <<now, CnOthers>>
    \/ \E c \in Calls : TimeoutFires(c) /\ UNCHANGED <<now, CnOthers>>
    \/ \E c \in Calls : TimeoutRemove(c) /\ UNCHANGED <<now, CnOthers>>
    \/ \E c \in Calls : ChannelClosed(c) /\ UNCHANGED <<now, CnOthers>>
    \/ DisconnectCall /\ UNCHANGED <<now, CnOthers>>
    \/ DisconnectTake /\ UNCHANGED <<now, CnOthers>>
    \/ SetAuthenticated /\ UNCHANGED <<now, CnOthers>>
    \* the session reads the clock only for the timers of waiting calls
    \/ (\E c \in Calls : cn_calls[c].pc = "wait") /\ Tick(MaxTime)
          /\ UNCHANGED <<cn_vars, CnOthers>>

\* the executor runs a task that can run: the read task takes the stream, the write
\* task receives and writes, a caller whose wait is over returns
FairConn ==
    /\ WF_vars(ReadTake /\ UNCHANGED <<now, CnOthers>>)
    /\ WF_vars(WriteRecv /\ UNCHANGED <<now, CnOthers>>)
    /\ WF_vars(WriteSend(TRUE) /\ UNCHANGED <<now, CnOthers>>)
    /\ WF_vars(DisconnectTake /\ UNCHANGED <<now, CnOthers>>)
    /\ \A c \in 1..MaxRequests :
          /\ WF_vars(c \in Calls /\ TimeoutRemove(c) /\ UNCHANGED <<now, CnOthers>>)
          /\ WF_vars(c \in Calls /\ ChannelClosed(c) /\ UNCHANGED <<now, CnOthers>>)

SpecConn == InitConn /\ [][NextConn]_vars /\ FairConn

\* send_request accepted call c: the session was connected and the request went
\* into the channel
Accepted(c) == c \in Calls /\ cn_calls[c].pc # "NotConnected"

\* the request of call c was written to the transport
Written(c) == \E i \in 1..Len(transport) : transport[i] = c

\* the transport holds the requests in the order send_request accepted them
TransportInOrder ==
    \A i, j \in 1..Len(transport) : i < j => transport[i] < transport[j]

\* C15: every request send_request accepts on a connected session is written to
\* the transport, unless the session ends first, and the requests are written in
\* the order they were accepted; the read and write tasks drop none.
C15_AcceptedRequestsAreWritten ==
    /\ []TransportInOrder
    /\ \A c \in 1..MaxRequests : Accepted(c) ~> (Written(c) \/ ~IsConnected)

\* call c leaves the wait of send_request because its timer elapsed
TimeoutReturns(c) == cn_calls[c].pc = "fired" /\ cn_calls'[c].pc # "fired"

----------------------------------------------------------------------------
\* The notification consumer: mining.notify jobs go through process_new_job.

\* the job of the last mining.notify that process_new_job was called with
LastDelivered == jq_ret.job

\* C16: every mining.notify job delivered to process_new_job is registered with the
\* share validator and passed to work_distributor.update_job, in the order received:
\* once process_new_job has taken a job, that job is registered and it is the job of
\* the latest update_job call, for any number and mix of clean and normal jobs.
C16_DeliveredJobIsRegisteredAndDistributed ==
    jq_ret.op = "add_job" =>
        /\ IsJobActive(LastDelivered.job_id)
        /\ uj.job_id = LastDelivered.job_id
        /\ uj.clean = LastDelivered.clean

----------------------------------------------------------------------------
\* The share buffer of the stratum client: threads submit shares, the session comes
\* and goes, the share handler task wakes up every five seconds.

InitClient ==
    /\ overflow_checks = FALSE
    /\ now = 0
    /\ NmInit
    /\ nm_config = NonceManagerConfigDefault
    /\ SvInit(FALSE)
    /\ sv_config = ShareValidatorConfigDefault
    /\ JqInit
    /\ WdInit
    /\ HtInit([i \in 1..HashLen |-> 0], [i \in 1..HashLen |-> 0])
    /\ GsInit(GpuSchedulerConfigDefault)
    /\ CnInit(FALSE)
    /\ MoInit
    /\ RqInit
    /\ LnInit
    /\ LkInit
    /\ GlInit
    /\ \E size \in 0..MaxBufferSize : ClInit(size)
    /\ PlInit(PoolsDefault, "Priority", [n \in Elems(PoolNames) |-> 0])

ClOthers == <<overflow_checks, now, nm_vars, sv_vars, jq_vars, wd_vars, ht_vars, gs_vars,
              cn_vars, pl_vars, mo_vars, rq_vars, ln_vars, lk_vars, gl_vars>>

NextClient ==
    \/ \E t \in Submitters : SubmitShareEnqueue(t) /\ UNCHANGED ClOthers
    \/ \E t \in Submitters : \E answers \in AnswersTo(share_queue) :
          SubmitShareFlush(t, answers) /\ UNCHANGED ClOthers
    \/ ShareHandlerTick /\ UNCHANGED ClOthers
    \/ ShareHandlerCheck /\ UNCHANGED ClOthers
    \/ \E state \in {"Disconnected", "Connected", "Authenticated"} :
          PoolSessionChanges(state) /\ UNCHANGED ClOthers

\* the share handler task is scheduled, and a submit_share call that has queued its
\* share goes on to its second block
FairClient ==
    /\ WF_vars(ShareHandlerTick /\ UNCHANGED ClOthers)
    /\ WF_vars(ShareHandlerCheck /\ UNCHANGED ClOthers)
    /\ \A t \in Submitters :
          WF_vars((\E answers \in AnswersTo(share_queue) : SubmitShareFlush(t, answers))
                      /\ UNCHANGED ClOthers)

SpecClient == InitClient /\ [][NextClient]_vars /\ FairClient

\* share s is in the buffer
Buffered(s) == \E i \in 1..Len(share_queue) : share_queue[i] = s

\* the pool has answered the submit request of share s
Submitted(s) == \E i \in 1..Len(pool_shares) : pool_shares[i] = s

\* no submit_share call is under way
NoSubmitShareCall == \A t \in Submitters : cl_submit[t] = "idle"

\* the pool is answered the shares in the order they were handed to submit_share
SubmittedInOrder ==
    \A i, j \in 1..Len(pool_shares) : i < j => pool_shares[i] < pool_shares[j]

\* C17: a share that waits in the buffer when the session is authorized is
\* eventually submitted to the pool (unless the session is lost again or the share is
\* pushed out of the buffer), in FIFO order, with no further submit_share call.
C17_BufferedSharesAreFlushed ==
    /\ []SubmittedInOrder
    /\ \A s \in 1..MaxShares :
          (Buffered(s) /\ cl_pool = "Authenticated" /\ NoSubmitShareCall)
              ~> (Submitted(s) \/ ~Buffered(s) \/ cl_pool # "Authenticated"
                    \/ ~NoSubmitShareCall)

\* the buffer holds the latest shares handed to submit_share, in arrival order:
\* its last entry is the latest share and no share is missing in between
HoldsMostRecentShares ==
    \A i \in 1..Len(share_queue) : share_queue[i] = cl_shares - Len(share_queue) + i

\* C18 as claimed: the share buffer never holds more than share_buffer_size shares,
\* and it holds the most recent shares in arrival order, for every share_buffer_size.
C18_BufferWithinSize ==
    /\ Len(share_queue) <= share_buffer_size
    /\ HoldsMostRecentShares

\* C18: with share_buffer_size >= 1 the share buffer never holds more than
\* share_buffer_size shares: submit_share on a full buffer drops the oldest share
\* and appends the new one, so the buffer holds the most recent shares in arrival
\* order.
C18_BufferWithinPositiveSize ==
    share_buffer_size >= 1 => C18_BufferWithinSize

\* the buffer is full and an older share was pushed out of it unsubmitted
C18_Witness ==
    /\ share_buffer_size >= 1
    /\ Len(share_queue) = share_buffer_size
    /\ \E s \in 1..cl_shares : s < share_queue[1] /\ ~Submitted(s)

----------------------------------------------------------------------------
\* The connection pool: connect_to_best_pool and its failover, over the
\* configurations of two pools.

PoolConfigs ==
    [name : {"p"}, priority : 0..MaxPoolValue, weight : 0..MaxPoolValue, enabled : BOOLEAN]

InitPool ==
    /\ overflow_checks = FALSE
    /\ now = 0
    /\ NmInit
    /\ nm_config = NonceManagerConfigDefault
    /\ SvInit(FALSE)
    /\ sv_config = ShareValidatorConfigDefault
    /\ JqInit
    /\ WdInit
    /\ HtInit([i \in 1..HashLen |-> 0], [i \in 1..HashLen |-> 0])
    /\ GsInit(GpuSchedulerConfigDefault)
    /\ CnInit(FALSE)
    /\ ClInit(MaxBufferSize)
    /\ MoInit
    /\ RqInit
    /\ LnInit
    /\ LkInit
    /\ GlInit
    /\ \E c1, c2 \in PoolConfigs, strategy \in FailoverStrategies,
          latency \in [Elems(PoolNames) -> 0..MaxPoolValue] :
          PlInit(<<[c1 EXCEPT !.name = PoolNames[1]], [c2 EXCEPT !.name = PoolNames[2]]>>,
                 strategy, latency)

PlOthers == <<overflow_checks, now, nm_vars, sv_vars, jq_vars, wd_vars, ht_vars, gs_vars,
              cn_vars, cl_vars, mo_vars, rq_vars, ln_vars, lk_vars, gl_vars>>

NextPoolStep ==
    \/ \E ok \in BOOLEAN, random \in 0..MaxPoolValue :
          ConnectToBestPool(ok, random) /\ UNCHANGED PlOthers
    \/ \E ok \in BOOLEAN, random \in 0..MaxPoolValue :
          FailoverIteration(ok, random) /\ UNCHANGED PlOthers
    \/ PoolDisconnect /\ UNCHANGED PlOthers

SpecPool == InitPool /\ [][NextPoolStep]_vars

\* the enabled pools
EnabledPools == {pl_pools[i].name : i \in {k \in 1..Len(pl_pools) : pl_pools[k].enabled}}

\* C20: during one failover() call no pool is attempted more than once, and
\* AllPoolsFailed is returned only after every enabled pool has been attempted and
\* has failed, under each of the four failover strategies.
C20_FailoverTriesEachPoolOnce ==
    /\ \A i, j \in 1..Len(fo.attempted) : i # j => fo.attempted[i] # fo.attempted[j]
    /\ fo.ret = "AllPoolsFailed" => EnabledPools \subseteq Elems(fo.attempted)

----------------------------------------------------------------------------
\* The orchestrator is started and stopped while its GPU worker tasks run.

MoOthers == <<overflow_checks, now, nm_vars, sv_vars, jq_vars, wd_vars, ht_vars, gs_vars,
              st_vars, rq_vars, ln_vars, lk_vars, gl_vars>>

GetWorkOutcomes == {"Some", "None"}

GpuWorkerStep(g) ==
    \/ \E has_device \in BOOLEAN : GpuWorkerLoopBegin(g, has_device)
    \/ \E outcome \in GetWorkOutcomes : GpuWorkerLoopGetWork(g, outcome)
    \/ GpuWorkerLoopIdle(g)
    \/ GpuWorkerLoopMine(g)
    \/ GpuWorkerLoopSubmit(g)

StopStep == StopSetStatus \/ StopSendShutdown \/ StopClient \/ StopJoin \/ StopReturn

NextStop ==
    \/ \E client_ok \in BOOLEAN : Start(client_ok) /\ UNCHANGED MoOthers
    \/ \E g \in GpuIds, has_device \in BOOLEAN :
          GpuWorkerLoopBegin(g, has_device) /\ UNCHANGED MoOthers
    \/ \E g \in GpuIds, outcome \in GetWorkOutcomes :
          GpuWorkerLoopGetWork(g, outcome) /\ UNCHANGED MoOthers
    \/ \E g \in GpuIds : GpuWorkerLoopIdle(g) /\ UNCHANGED MoOthers
    \/ \E g \in GpuIds : GpuWorkerLoopMine(g) /\ UNCHANGED MoOthers
    \/ \E g \in GpuIds : GpuWorkerLoopSubmit(g) /\ UNCHANGED MoOthers
    \/ StopSetStatus /\ UNCHANGED MoOthers
    \/ StopSendShutdown /\ UNCHANGED MoOthers
    \/ StopClient /\ UNCHANGED MoOthers
    \/ StopJoin /\ UNCHANGED MoOthers
    \/ StopReturn /\ UNCHANGED MoOthers

\* the runtime runs every spawned task and the caller of stop() again and again
FairStop ==
    /\ \A g \in GpuIds : WF_vars(GpuWorkerStep(g) /\ UNCHANGED MoOthers)
    /\ WF_vars(StopStep /\ UNCHANGED MoOthers)

InitStop ==
    /\ overflow_checks = FALSE
    /\ now = 0
    /\ NmInit
    /\ nm_config = NonceManagerConfigDefault
    /\ SvInit(FALSE)
    /\ sv_config = ShareValidatorConfigDefault
    /\ JqInit
    /\ WdInit
    /\ LibInit

SpecStop == InitStop /\ [][NextStop]_vars /\ FairStop

\* stop() was called after start() had returned Ok
StopCalledOnStarted == mo_stop # "none" /\ stratum_client # None

\* C21: after stop is called on a started orchestrator, every GPU worker task
\* eventually exits and stop returns with the status Stopped
C21_StopEndsWorkersAndReturns ==
    StopCalledOnStarted ~>
        (/\ mo_stop = "returned"
         /\ mo_status = "Stopped"
         /\ \A g \in GpuIds : worker_tasks[g] = "returned")

----------------------------------------------------------------------------
\* validate_result: which check decides the outcome, and what it does to the
\* history.

\* the outcomes of the five checks, in the order of the claim
CheckOrder == <<"UnknownJob", "InvalidNonce", "Duplicate", "BelowTarget", "InvalidHash">>

\* the check named `outcome` is made by this validator and fails for the share
CheckFails(outcome, nonce, hash, target, job_id) ==
    CASE outcome = "UnknownJob" -> job_id \notin sv_active_jobs
      [] outcome = "InvalidNonce" ->
            /\ sv_config.validate_nonce_range
            /\ nonce_validator
            /\ ~IsNonceAllocated(job_id, nonce)
      [] outcome = "Duplicate" ->
            /\ sv_config.detect_duplicates
            /\ \/ hash \in recent_hashes
               \/ \E i \in 1..Len(share_history) :
                     share_history[i].nonce = nonce /\ share_history[i].job_id = job_id
      [] outcome = "BelowTarget" -> ~MeetsTarget(hash, target)
      [] outcome = "InvalidHash" -> sv_config.fast_verify /\ ~VerifyHashFast(nonce, hash)

\* the checks that fail for the share, as positions in CheckOrder
FailingChecks(nonce, hash, target, job_id) ==
    {i \in 1..Len(CheckOrder) : CheckFails(CheckOrder[i], nonce, hash, target, job_id)}

\* the outcome the claim asks for: the first failing check, Valid when none fails
FirstFailingCheck(nonce, hash, target, job_id) ==
    LET failing == FailingChecks(nonce, hash, target, job_id)
    IN  IF failing = {} THEN "Valid"
        ELSE CheckOrder[CHOOSE i \in failing : \A k \in failing : i <= k]

\* the history keeps at least one entry for at least a second
HistoryKeepsEntries ==
    sv_config.duplicate_cache_size >= 1 /\ sv_config.duplicate_cache_ttl >= 1

\* a validate_result call: its outcome is the first failing check; a non-Valid
\* outcome leaves the history and the hash set as they were, a Valid one puts the
\* share at the end of the history
ValidateResultAsClaimed(nonce, hash, target, job_id) ==
    LET expected == FirstFailingCheck(nonce, hash, target, job_id)
    IN  /\ sv_ret'.result = expected
        /\ expected # "Valid" => UNCHANGED <<share_history, recent_hashes>>
        /\ (expected = "Valid" /\ HistoryKeepsEntries) =>
              /\ share_history' # <<>>
              /\ LET last == share_history'[Len(share_history')]
                 IN  /\ last.nonce = nonce
                     /\ last.hash = hash
                     /\ last.job_id = job_id

----------------------------------------------------------------------------
\* submit_result: what it changes for an active unit.

\* the unit with this id is in the active map
IsActiveUnit(work_id) == \E u \in active_work : u.id = work_id

\* the effect the claim gives submit_result on the active map and the statistics,
\* the sum of the hashes taken as an unbounded integer
SubmitResultAsClaimed(g, work_id, found, hashes_computed) ==
    /\ \A u \in active_work' : u.id # work_id
    /\ gpu_stats'[g].units_completed = gpu_stats[g].units_completed + 1
    /\ gpu_stats'[g].total_hashes = gpu_stats[g].total_hashes + hashes_computed
    /\ gpu_stats'[g].solutions_found =
           gpu_stats[g].solutions_found + (IF found THEN 1 ELSE 0)
    /\ \A other \in GpuIds \ {g} : gpu_stats'[other] = gpu_stats[other]

\* C23: submit_result(r) for an active unit removes r.work_id from the active map
\* and, on GPU r.gpu_index only, increments units_completed by one, adds
\* r.hashes_computed to total_hashes and increments solutions_found exactly when
\* r.nonce is present; the statistics of every other GPU are unchanged
C23_SubmitResultUpdatesOneGpu ==
    [][\A g \in GpuIds, found \in BOOLEAN, hashes \in HashesComputed,
          nonzero \in BOOLEAN, work_id \in 0..MaxUnits :
          (IsActiveUnit(work_id) /\ SubmitResult(g, work_id, found, hashes, nonzero))
              => SubmitResultAsClaimed(g, work_id, found, hashes)]_vars

\* C23 amended: the same while total_hashes + r.hashes_computed fits in 64 bits
C23_SubmitResultUpdatesOneGpuWithinU64 ==
    [][\A g \in GpuIds, found \in BOOLEAN, hashes \in HashesComputed,
          nonzero \in BOOLEAN, work_id \in 0..MaxUnits :
          (/\ IsActiveUnit(work_id)
           /\ gpu_stats[g].total_hashes + hashes <= MaxU64
           /\ SubmitResult(g, work_id, found, hashes, nonzero))
              => SubmitResultAsClaimed(g, work_id, found, hashes)]_vars

\* jobs are installed with clean_jobs = false (so that clear_all_work is not
\* called), the workers ask for work and report their units, with and without a
\* solution, with few and with many hashes
NextSubmit ==
    \/ \E g \in GpuIds : GetWorkCall(g) /\ UNCHANGED WdOthers
    \/ \E g \in GpuIds : GetWorkPop(g) /\ UNCHANGED WdOthers
    \/ \E g \in GpuIds : ReadCurrentJob(g) /\ UNCHANGED WdOthers
    \/ \E g \in GpuIds : \E work_size \in WorkSizes(g) :
          GenerateUnit(g, work_size) /\ UNCHANGED WdOthers
    \/ \E g \in GpuIds : PushUnit(g) /\ UNCHANGED WdOthers
    \/ \E g \in GpuIds, found \in BOOLEAN, hashes \in HashesComputed :
          \E work_id \in ReportableIds(g) :
              SubmitResult(g, work_id, found, hashes, FALSE) /\ UNCHANGED WdOthers
    \/ \E j \in JobIds : UpdateJobCall(j, FALSE) /\ UNCHANGED WdOthers
    \/ UpdateJobWrite /\ UNCHANGED WdOthers
    \/ UpdateJobStore /\ UNCHANGED WdOthers
    \/ \E work_size \in WorkSizes(uj.next) :
          UpdateJobGenerate(work_size) /\ UNCHANGED WdOthers
    \/ UpdateJobPush /\ UNCHANGED WdOthers

SpecSubmit == InitWd /\ [][NextSubmit]_vars

\* a GPU has just reported a solution for an active unit, its first result, and
\* the other GPU has reported nothing
C23_Witness ==
    \E g \in GpuIds :
        /\ wd_calls.active_unit
        /\ wk[g].op = "submit_result"
        /\ wk[g].pc = "submitted"
        /\ gpu_stats[g].units_completed = 1
        /\ gpu_stats[g].total_hashes = 1
        /\ gpu_stats[g].solutions_found = 1
        /\ \A other \in GpuIds \ {g} : gpu_stats[other] = GpuStatsDefault

----------------------------------------------------------------------------
\* The share counters of the client.

\* how many of the answered shares got this answer
Answered(answer) == Cardinality({i \in 1..Len(pool_answers) : pool_answers[i] = answer})

\* C24: shares_accepted is incremented for a share only when the pool answered
\* its mining.submit with true; an error or a false result counts the share as
\* rejected; each answered share increments exactly one of the two counters
C24_AcceptedOnlyWhenTrue ==
    /\ cl_stats.shares_accepted = Answered("true")
    /\ cl_stats.shares_rejected = Answered("false") + Answered("error")
    /\ cl_stats.shares_accepted + cl_stats.shares_rejected = Len(pool_answers)

----------------------------------------------------------------------------
\* allocate_range: when it refuses, and the bounds of what it returns.

\* the size allocate_range works with
SizeOf(requested_size) ==
    IF requested_size = NoSize THEN nm_config.default_range_size ELSE requested_size

\* the offset of the job, initial_nonce for a job without one
OffsetOf(job_id) ==
    IF job_id \in DOMAIN job_offsets THEN job_offsets[job_id] ELSE nm_config.initial_nonce

\* the recycled queue gives allocate_range nothing for this request
NothingRecycled(job_id, gpu_index, requested_size) ==
    \/ ~nm_config.enable_recycling
    \/ GetRecycledRange(recycled_ranges, job_id, gpu_index, SizeOf(requested_size)).kind
          = "none"

\* the job has max_ranges_per_job active ranges
AtMaxRanges(job_id) ==
    /\ job_id \in DOMAIN active_ranges
    /\ Len(active_ranges[job_id]) >= nm_config.max_ranges_per_job

\* C25: allocate_range returns None whenever the job's offset plus the requested
\* size exceeds max_nonce, the sum taken as an unbounded integer, and when the job
\* already has max_ranges_per_job active ranges; every range it returns satisfies
\* start <= end <= max_nonce
C25_AllocateRangeRefusesBeyondMaxNonce ==
    [][\A j \in JobIds, g \in GpuIds, n \in RequestedSizes :
          AllocateRange(j, g, n) =>
              /\ (/\ NothingRecycled(j, g, n)
                  /\ \/ OffsetOf(j) + SizeOf(n) > nm_config.max_nonce
                     \/ AtMaxRanges(j)) => nm_ret'.kind = "none"
              /\ nm_ret'.kind = "some" =>
                    /\ nm_ret'.range.start <= nm_ret'.range.end
                    /\ nm_ret'.range.end <= nm_config.max_nonce]_vars

----------------------------------------------------------------------------
\* clear_job: the job's state is gone and stays gone.

\* the manager holds no offset, no active range and no recycled range for the job
HoldsNothingFor(job_id) ==
    /\ job_id \notin DOMAIN job_offsets
    /\ job_id \notin DOMAIN active_ranges
    /\ job_id \notin DOMAIN recycled_ranges

\* C26: after clear_job(j) the manager holds no offset, no active range and no
\* recycled range for j; this stays so until the next allocate_range(j), which
\* returns a fresh range starting at initial_nonce; a complete_range or
\* release_gpu_ranges that arrives after clear_job brings no state of j back
C26_ClearedJobStaysCleared ==
    [][\A j \in JobIds :
          /\ ClearJob(j) => HoldsNothingFor(j)'
          /\ HoldsNothingFor(j) =>
                IF \E g \in GpuIds, n \in RequestedSizes : AllocateRange(j, g, n)
                THEN nm_ret'.kind = "some" =>
                         nm_ret'.range.start = nm_config.initial_nonce
                ELSE HoldsNothingFor(j)']_vars

----------------------------------------------------------------------------
\* The requests of one session and their ids.

RqOthers == <<overflow_checks, now, nm_vars, sv_vars, jq_vars, wd_vars, ht_vars, gs_vars,
              st_vars, mo_vars, ln_vars, lk_vars, gl_vars>>

NextIds ==
    \/ Subscribe /\ UNCHANGED RqOthers
    \/ Authorize /\ UNCHANGED RqOthers
    \/ Submit /\ UNCHANGED RqOthers
    \/ Keepalive /\ UNCHANGED RqOthers
    \/ \E id \in DOMAIN pending_ids : RequestEnds(id) /\ UNCHANGED RqOthers

SpecIds == InitStop /\ [][NextIds]_vars

\* C27: the request ids sent on one session are strictly increasing, so no two
\* requests carry the same id and no pending-request entry is overwritten by a
\* later request with an equal id
C27_RequestIdsIncrease ==
    /\ \A i, k \in 1..Len(session_requests) :
          i < k => session_requests[i].id < session_requests[k].id
    /\ ~overwritten

----------------------------------------------------------------------------
\* allocate_range with recycling: which recycled range is given out.

\* the job's recycled queue
RecycledQueue(job_id) ==
    IF job_id \in DOMAIN recycled_ranges THEN recycled_ranges[job_id] ELSE <<>>

\* the positions in the job's recycled queue of the ranges of at least this size,
\* the sizes taken as integers
Fitting(job_id, size) ==
    {i \in 1..Len(RecycledQueue(job_id)) :
        RecycledQueue(job_id)[i].end - RecycledQueue(job_id)[i].start >= size}

\* what the claim asks of an allocate_range(job_id, gpu_index, size) call
RecycledFirstFit(job_id, gpu_index, size) ==
    LET q == RecycledQueue(job_id)
        fit == Fitting(job_id, size)
    IN  IF fit = {}
        THEN /\ recycled_ranges' = recycled_ranges
             /\ nm_ret'.kind = "some" => nm_ret'.range.start = OffsetOf(job_id)
        ELSE
        LET first == q[CHOOSE i \in fit : \A k \in fit : i <= k]
            q1 == recycled_ranges'[job_id]
        IN  /\ nm_ret'.kind = "some"
            /\ nm_ret'.range.start = first.start
            /\ nm_ret'.range.gpu_index = gpu_index
            /\ UNCHANGED job_offsets
            /\ IF first.end - first.start > 2 * size
               THEN /\ nm_ret'.range.end = first.start + size
                    /\ Len(q1) = Len(q)
                    /\ \E k \in 1..Len(q1) :
                          q1[k].start = first.start + size /\ q1[k].end = first.end
               ELSE /\ nm_ret'.range.end = first.end
                    /\ Len(q1) = Len(q) - 1

\* C28: with recycling enabled allocate_range returns the first recycled range of
\* the job whose size is at least the requested size, start unchanged, gpu_index
\* set to the caller; a range larger than twice the requested size is split at
\* start + requested size, the head is returned and the remainder stays in the
\* queue; a fresh range is cut from the offset only when no recycled range fits
C28_FirstFittingRecycledRange ==
    [][\A j \in JobIds, g \in GpuIds, n \in RequestedSizes :
          (nm_config.enable_recycling /\ AllocateRange(j, g, n))
              => RecycledFirstFit(j, g, SizeOf(n))]_vars

----------------------------------------------------------------------------
\* get_next_job and the aged Normal jobs.

\* C29: get_next_job always returns: an aged Normal job it dequeues is dropped and
\* counted and the call continues with the next queued job, returning the first
\* job that is not aged, or the backup job or None when both channels are empty
C29_GetNextJobReturns ==
    jq_ret.op = "get_next_job" =>
        /\ jq_ret.kind \in {"some", "none"}
        /\ jq_ret.path = "normal" =>
              AsSecs(jq_ret.age) <= jq_config.max_job_age_secs

----------------------------------------------------------------------------
\* add_job of a clean job and the jobs it drains.

\* the drop counters of the queue statistics together
DropCounter(stats) == stats.jobs_dropped_age + stats.jobs_dropped_overflow

\* C30: when add_job of a clean job drains k jobs from the Normal channel, the
\* queue's drop counter increases by k
C30_DrainedJobsAreCounted ==
    [][\A j \in QueueJobIds :
          (AddJob(j, TRUE) /\ jq_ret'.kind = "ok")
              => DropCounter(jq_stats') = DropCounter(jq_stats) + Len(normal)]_vars
(***************************************************************************)
(* A failing add_job                                                       *)
(***************************************************************************)
\* the last add_job call returned Err("Queue full: ...")
AddJobFailed == jq_ret.op = "add_job" /\ jq_ret.kind = "err"

\* C31: when add_job fails because the destination channel is full it returns the
\* QueueFull error, increments jobs_dropped_overflow by one, and leaves the Critical
\* channel, the Normal channel and the backup store exactly as they were before the
\* call.
C31_FailedAddJobLeavesChannels ==
    [][\A j \in QueueJobIds, clean \in BOOLEAN :
          (AddJob(j, clean) /\ AddJobFailed')
              => /\ jq_stats'.jobs_dropped_overflow = jq_stats.jobs_dropped_overflow + 1
                 /\ high_priority' = high_priority
                 /\ normal' = normal
                 /\ backup_jobs' = backup_jobs]_vars
----------------------------------------------------------------------------
\* The depth of the per-GPU queues.

\* update_job returns: its last generate_work_for_gpu call has queued its unit
UpdateJobReturns == UpdateJobPush /\ uj'.pc = "idle"

\* the queue of GPU g holds exactly queue_depth units, all of job job_id
HoldsDepthUnitsOf(queue, job_id) ==
    /\ Len(queue) = wd_config.queue_depth
    /\ \A i \in 1..Len(queue) : queue[i].job_id = job_id

\* C32: after update_job returns, each GPU's work queue holds queue_depth units of
\* the new job, and no per-GPU queue ever holds more than queue_depth units.
C32_QueuesHoldQueueDepth ==
    /\ [][UpdateJobReturns
             => \A g \in GpuIds : HoldsDepthUnitsOf(work_queues'[g], uj.job_id)]_vars
    /\ [](\A g \in GpuIds : Len(work_queues[g]) <= wd_config.queue_depth)
----------------------------------------------------------------------------
\* The units get_work returns.

\* get_work(g) returns a unit in this step
GetWorkReturnsUnit(g) ==
    /\ wk[g].op = "get_work"
    /\ wk[g].pc # "idle"
    /\ wk'[g].pc = "idle"
    /\ wk'[g].ret # NoUnit

\* get_work(g) returns from steal_work in this step
Stolen(g) == wk[g].pc = "steal" /\ GetWorkReturnsUnit(g)

\* the GPUs other than g whose queue is at least as long as every other's
LongestQueues(g) ==
    {v \in GpuIds \ {g} : \A x \in GpuIds \ {g} : Len(work_queues[x]) <= Len(work_queues[v])}

\* the unit taken from the queue of a longest GPU, of length at least 2, while the
\* queue of g is empty and stealing is enabled
StolenAsClaimed(g) ==
    /\ work_queues[g] = <<>>
    /\ wd_config.work_stealing_threshold > 0
    /\ \E v \in LongestQueues(g) :
          /\ Len(work_queues[v]) >= 2
          /\ work_queues'[v] = SubSeq(work_queues[v], 1, Len(work_queues[v]) - 1)
          /\ wk'[g].ret.id = work_queues[v][Len(work_queues[v])].id

\* C33: every unit returned by get_work(g), whether popped from g's own queue or
\* stolen from another GPU's queue, has gpu_index equal to g and is present in the
\* active-unit map; a unit is stolen only when g's own queue is empty,
\* work_stealing_threshold > 0 and the victim is a GPU with the longest queue, of
\* length at least 2.
C33_ReturnedUnitIsActive ==
    [][\A g \in GpuIds :
          /\ GetWorkReturnsUnit(g)
                => /\ wk'[g].ret.gpu_index = g
                   /\ wk'[g].ret \in active_work'
          /\ Stolen(g) => StolenAsClaimed(g)]_vars
----------------------------------------------------------------------------
\* Results for units that left the active map.

\* more than work_timeout passes
SleepPastTimeout ==
    /\ now + wd_config.work_timeout < MaxTime
    /\ now' = now + wd_config.work_timeout + 1

\* a job is installed and installed again, clean and not, the workers ask for work
\* and report a unit with a solution, and check_timeouts is called now and then
NextReclaim ==
    \/ \E g \in GpuIds : GetWorkCall(g) /\ UNCHANGED WdOthers
    \/ \E g \in GpuIds : GetWorkPop(g) /\ UNCHANGED WdOthers
    \/ \E g \in GpuIds : ReadCurrentJob(g) /\ UNCHANGED WdOthers
    \/ \E g \in GpuIds : \E work_size \in WorkSizes(g) :
          GenerateUnit(g, work_size) /\ UNCHANGED WdOthers
    \/ \E g \in GpuIds : PushUnit(g) /\ UNCHANGED WdOthers
    \/ \E g \in GpuIds : StealWork(g) /\ UNCHANGED WdOthers
    \/ \E g \in GpuIds : \E work_id \in ReportableIds(g) :
          SubmitResult(g, work_id, TRUE, 1, FALSE) /\ UNCHANGED WdOthers
    \/ \E clean \in BOOLEAN :
          UpdateJobCall("job1", clean) /\ UNCHANGED WdOthers
    \/ \E g \in GpuIds : UpdateJobClear(g) /\ UNCHANGED WdOthers
    \/ UpdateJobWrite /\ UNCHANGED WdOthers
    \/ UpdateJobStore /\ UNCHANGED WdOthers
    \/ \E work_size \in WorkSizes(uj.next) :
          UpdateJobGenerate(work_size) /\ UNCHANGED WdOthers
    \/ UpdateJobPush /\ UNCHANGED WdOthers
    \/ CheckTimeouts /\ UNCHANGED WdOthers
    \/ SleepPastTimeout
          /\ UNCHANGED <<overflow_checks, lib_vars, nm_vars, sv_vars, jq_vars, wd_vars>>

InitReclaim == InitWd /\ overflow_checks = FALSE

SpecReclaim == InitReclaim /\ [][NextReclaim]_vars

\* C34: a result submitted for a work unit that is no longer in the active map
\* (cleared by a clean job, or reclaimed by the timeout sweep) is discarded:
\* submit_result leaves the per-GPU statistics unchanged for it.
C34_ReclaimedResultIsDiscarded ==
    [][\A g \in GpuIds, found \in BOOLEAN, hashes \in HashesComputed :
          \A work_id \in wd_calls.reclaimed \ Ids(active_work) :
              SubmitResult(g, work_id, found, hashes, FALSE) => gpu_stats' = gpu_stats]_vars
----------------------------------------------------------------------------
\* The rebalance trigger of select_gpu.

\* C35: when select_gpu is called with adaptive scheduling on, rebalance_interval
\* elapsed and the difference between the highest and the lowest GPU utilization
\* above load_balance_threshold, it increments rebalances_performed by exactly one,
\* moves no work, and returns a GPU.
C35_RebalanceIsCountedOnce ==
    [][(SelectGpu /\ RebalanceDue)
          => /\ gs_stats'.rebalances_performed = gs_stats.rebalances_performed + 1
             /\ gs_ret'.called
             /\ gs_ret'.gpu # NoGpu
             /\ ~gs_stuck'
             /\ UNCHANGED <<gpu_loads, wd_vars>>]_vars
----------------------------------------------------------------------------
\* The counters of the nonce manager.

\* C36: after every nonce manager operation (allocate_range, complete_range,
\* release_gpu_ranges, clear_job), stats.active_ranges equals the number of ranges
\* in the active sets of all jobs and stats.active_jobs equals the number of jobs
\* that have an offset.
\* (Checked after the operations that return; one that panics is left aside.)
C36_CountersMatchTheMaps ==
    nm_ret.kind # "panic"
        => /\ nm_stats.active_ranges = ActiveCount(active_ranges)
           /\ nm_stats.active_jobs = Cardinality(DOMAIN job_offsets)
----------------------------------------------------------------------------
\* The nonce intervals of the work units.

\* the units generated that are still somewhere: queued, active, on their way into
\* a queue, or in the hands of a worker
UnitsAtHand ==
    (KnownUnits
        \cup {wk[g].pending : g \in GpuIds} \cup {wk[g].work : g \in GpuIds}
        \cup {wk[g].ret : g \in GpuIds} \cup {uj.pending}) \ {NoUnit}

\* C37: no two work units ever generated for the same job_id cover overlapping nonce
\* intervals [nonce_start, nonce_start + nonce_count), for every interleaving of
\* update_job with get_work and submit_result called by concurrent workers, and
\* across repeated update_job calls.  (Stated for the units still at hand, which
\* are among those generated.)
C37_UnitsOfAJobAreDisjoint ==
    \A u, v \in UnitsAtHand :
        (u.id # v.id /\ u.job_id = v.job_id) => UnitNonces(u) \cap UnitNonces(v) = {}
----------------------------------------------------------------------------
\* The lines of one session: requests are sent and written, and the pool sends
\* lines of every form at any time.

LnOthers == <<overflow_checks, now, nm_vars, sv_vars, jq_vars, wd_vars, ht_vars, gs_vars,
              cl_vars, pl_vars, mo_vars, rq_vars, lk_vars, gl_vars>>

NextLines ==
    \/ \E ok \in BOOLEAN : ConnectOnce(ok) /\ UNCHANGED <<ln_vars, LnOthers>>
    \/ ReadTake /\ UNCHANGED <<ln_vars, LnOthers>>
    \/ \E line \in Lines : ReadLine(line) /\ UNCHANGED LnOthers
    \/ \E error \in BOOLEAN : ReadEnd(error) /\ UNCHANGED <<ln_vars, LnOthers>>
    \/ WriteRecv /\ UNCHANGED <<ln_vars, LnOthers>>
    \/ \E ok \in BOOLEAN : WriteSend(ok) /\ UNCHANGED <<ln_vars, LnOthers>>
    \/ \E id \in RequestIds \cup {NoRequestId} :
          SendRequest(id) /\ UNCHANGED <<ln_vars, LnOthers>>

SpecLines == InitConn /\ [][NextLines]_vars

\* the calls whose state a step changes
Served == {k \in Calls : cn_calls'[k] # cn_calls[k]}

\* C38: an incoming line that has a method and no id is handled as a notification:
\* it is forwarded to the notification channel and is never consumed as a response;
\* a line with an id is delivered only to the pending request that has that id.
C38_NotificationsAreForwarded ==
    [][\A line \in Lines :
          ReadLine(line)
              => /\ (line.method /\ line.id = NoRequestId)
                       => /\ notification_ch' = Append(notification_ch, line)
                          /\ cn_line'.as = "notification"
                 /\ line.id # NoRequestId
                       => \A k \in Served : cn_calls[k].id = line.id]_vars

(***************************************************************************)
(* validate_result and clear_history on two threads                        *)
(***************************************************************************)
SvLkOthers == <<overflow_checks, now, nm_vars, jq_vars, wd_vars, ht_vars, gs_vars, st_vars,
                mo_vars, rq_vars, ln_vars, gl_vars>>

\* the validator with duplicate detection as configured, one registered job
InitSvLocks ==
    /\ InitSv
    /\ ~nonce_validator

\* one thread validates results, another clears the history, a third registers jobs
NextSvLocks ==
    \/ \E nonce \in ResultNonces, hash \in Hashes, target \in Targets, j \in JobIds :
          VrEnter(nonce, hash, target, j) /\ UNCHANGED SvLkOthers
    \/ IsDuplicateHashes /\ UNCHANGED SvLkOthers
    \/ IsDuplicateHistory /\ UNCHANGED SvLkOthers
    \/ AddToHistoryHistory /\ UNCHANGED SvLkOthers
    \/ AddToHistoryHashes /\ UNCHANGED SvLkOthers
    \/ ClearHistoryHistory /\ UNCHANGED SvLkOthers
    \/ ClearHistoryHashes /\ UNCHANGED SvLkOthers
    \/ \E j \in JobIds : RegisterJob(j) /\ UNCHANGED <<lk_vars, SvLkOthers>>

\* a thread that can take its next lock does so: the scheduler runs every thread,
\* and parking_lot hands a released lock to a waiting thread
FairSvLocks ==
    /\ SF_vars(IsDuplicateHashes /\ UNCHANGED SvLkOthers)
    /\ SF_vars(IsDuplicateHistory /\ UNCHANGED SvLkOthers)
    /\ SF_vars(AddToHistoryHistory /\ UNCHANGED SvLkOthers)
    /\ SF_vars(AddToHistoryHashes /\ UNCHANGED SvLkOthers)
    /\ SF_vars(ClearHistoryHashes /\ UNCHANGED SvLkOthers)

SpecSvLocks == InitSvLocks /\ [][NextSvLocks]_vars /\ FairSvLocks

\* C39: validate_result and clear_history called concurrently from different
\* threads always both complete: a validate_result call that was entered returns
\* and a clear_history call that was entered returns, whatever the interleaving of
\* their steps on the share_history and recent_hashes locks
C39_ValidateAndClearBothComplete ==
    /\ (sv_call.pc # "idle") ~> (sv_call.pc = "idle")
    /\ (sv_clear # "idle") ~> (sv_clear = "idle")

\* is_duplicate holds the read guard of recent_hashes and waits for share_history,
\* clear_history holds the write guard of share_history and waits for recent_hashes
SvLockCycle ==
    /\ sv_call.pc = "is_duplicate_history"
    /\ sv_clear = "clear_history_hashes"

(***************************************************************************)
(* select_gpu and update_gpu_load on two threads                           *)
(***************************************************************************)
GlOthers == <<overflow_checks, nm_vars, sv_vars, jq_vars, wd_vars, ht_vars, st_vars,
              mo_vars, rq_vars, ln_vars>>

\* one thread selects GPUs, another reports the telemetry, the clock runs
NextGsLocks ==
    \/ SelectGpuEnter /\ UNCHANGED <<now, GlOthers>>
    \/ CheckRebalanceInterval /\ UNCHANGED <<now, GlOthers>>
    \/ CheckRebalanceLoads /\ UNCHANGED <<now, GlOthers>>
    \/ SelectGpuStrategy /\ UNCHANGED <<now, GlOthers>>
    \/ \E g \in GpuIds, load \in ReportedLoads :
          UpdateGpuLoadInsert(g, load) /\ UNCHANGED <<now, GlOthers>>
    \/ UpdateGpuLoadThrottle /\ UNCHANGED <<now, GlOthers>>
    \/ Tick(MaxTime) /\ UNCHANGED <<gs_vars, lk_vars, gl_vars, GlOthers>>

\* a thread that can take its next lock does so: the scheduler runs every thread,
\* and parking_lot hands a released lock to a waiting thread
FairGsLocks ==
    /\ SF_vars(CheckRebalanceInterval /\ UNCHANGED <<now, GlOthers>>)
    /\ SF_vars(CheckRebalanceLoads /\ UNCHANGED <<now, GlOthers>>)
    /\ SF_vars(SelectGpuStrategy /\ UNCHANGED <<now, GlOthers>>)
    /\ SF_vars(UpdateGpuLoadThrottle /\ UNCHANGED <<now, GlOthers>>)

SpecGsLocks == InitGs /\ [][NextGsLocks]_vars /\ FairGsLocks

\* C40: select_gpu and update_gpu_load called concurrently from different threads
\* always both complete, for every strategy and every telemetry value: a select_gpu
\* call that was entered returns and an update_gpu_load call that was entered
\* returns, whatever the interleaving of their steps on the gpu_loads and stats locks
C40_SelectAndUpdateBothComplete ==
    /\ (gs_select # "idle") ~> (gs_select = "idle")
    /\ (gs_update.pc # "idle") ~> (gs_update.pc = "idle")

\* select_gpu holds the write guard of stats and waits for gpu_loads,
\* update_gpu_load holds the write guard of gpu_loads and waits for stats
GsLockCycle ==
    /\ gs_select \in {"check_rebalance_loads", "strategy"}
    /\ gs_config.strategy # "RoundRobin" \/ gs_select = "check_rebalance_loads"
    /\ gs_update.pc \in {"thermal_throttle", "power_throttle"}

\* select_gpu waits in check_rebalance for the stats lock it holds itself
SelectGpuSelfDeadlock == gs_select = "check_rebalance_stats"

====
